---- MODULE Spec2Model ----
(***************************************************************************)
(* Model of the comment filter of yay-filter:                              *)
(*   - CircularBuffer        (src/src/util/CircularBuffer.ts)              *)
(*   - LanguageDetector      (src/src/lang/LanguageDetector.ts)            *)
(*   - CommentInfo           (src/src/model/CommentInfo.ts)                *)
(*   - Settings              (src/unnamed/part_006)                        *)
(* The specifications share the variables:                                 *)
(*   SpecBuffer    a free-standing CircularBuffer driven by push/pop/clear *)
(*   SpecCache     a LanguageDetector driven by direct detectLanguage      *)
(*                 calls; SpecCacheNoClear leaves clearCache out           *)
(*   SpecItem      one CommentInfo whose pipelines use the detector        *)
(*   SpecSettings  one Settings, constructed and then driven by setters    *)
(*   SpecDiff      two Settings compared by shouldRefreshFilter            *)
(***************************************************************************)
EXTENDS Integers, Sequences, FiniteSets, TLC

\* ------------------------------------------------------------------------
\*  Bounds
\* ------------------------------------------------------------------------

\* largest capacity of the free-standing buffer
MaxCapacity == 3

\* elements pushed onto the free-standing buffer are 1..NumValues
NumValues == 2

\* largest maxCacheSize of the language detector
MaxCacheSize == 2

\* largest number of oracle requests outstanding at once
MaxInflight == 2

\* largest number of refreshAll / refreshFilter calls on the comment
MaxPipes == 2

\* ------------------------------------------------------------------------
\*  Program constants
\* ------------------------------------------------------------------------

\* modulus of the age counter (CommentInfo.incrementAge)
AgeModulus == 1000000000

\* multiplier of the polynomial hash (LanguageDetector.hashCode)
HashMultiplier == 31

\* one 16-bit limb of a 32-bit integer
Limb == 65536

\* ------------------------------------------------------------------------
\*  Texts, as sequences of UTF-16 code units
\* ------------------------------------------------------------------------

\* "Aa" and "BB" have the same hash code, "C" and "D" have their own
TextAa == <<65, 97>>
TextBB == <<66, 66>>
TextC == <<67>>
TextD == <<68>>

Texts == {TextAa, TextBB, TextC, TextD}

\* ------------------------------------------------------------------------
\*  CircularBuffer
\* ------------------------------------------------------------------------

\* new CircularBuffer(capacity)
CircularBuffer(cap) == [capacity |-> cap, data |-> <<>>, index |-> 0, sz |-> 0]

\* size()
size(b) == b.sz

\* the condition under which push throws 'capacity exceeded'
pushThrows(b) == b.sz = b.capacity

\* a push that stores the element before it checks the capacity
pushStoreFirst(b, e) ==
    IF Len(b.data) < b.capacity
    THEN [b EXCEPT !.data = Append(@, e), !.sz = @ + 1]
    ELSE IF b.sz = b.capacity
         THEN [b EXCEPT !.data[((b.index + b.sz) % b.capacity) + 1] = e]
         ELSE [b EXCEPT !.data[((b.index + b.sz) % b.capacity) + 1] = e, !.sz = @ + 1]

\* push(element): the buffer after the call (unchanged when push throws)
push(b, e) ==
    IF pushThrows(b) THEN b
    ELSE IF Len(b.data) < b.capacity
         THEN [b EXCEPT !.data = Append(@, e), !.sz = @ + 1]
         ELSE [b EXCEPT !.data[((b.index + b.sz) % b.capacity) + 1] = e, !.sz = @ + 1]

\* the value pop() returns: def = FALSE stands for undefined
popReturn(b) ==
    IF b.sz = 0 THEN [def |-> FALSE, val |-> 0]
    ELSE [def |-> TRUE, val |-> b.data[b.index + 1]]

\* pop(): the buffer after the call
pop(b) ==
    IF b.sz = 0 THEN b
    ELSE [b EXCEPT !.sz = @ - 1, !.index = (@ + 1) % b.capacity]

\* clear()
clear(b) == [b EXCEPT !.sz = 0]

\* the values that successive pop() calls return until the buffer is empty
RECURSIVE Drain(_)
Drain(b) ==
    IF b.sz = 0 THEN <<>>
    ELSE <<popReturn(b).val>> \o Drain(pop(b))

\* ------------------------------------------------------------------------
\*  JavaScript Map, as the sequence of its entries in insertion order
\* ------------------------------------------------------------------------

MapKeys(m) == {m[i].key : i \in 1..Len(m)}

MapHas(m, k) == k \in MapKeys(m)

MapGet(m, k) == m[CHOOSE i \in 1..Len(m) : m[i].key = k].value

MapSet(m, k, v) ==
    IF MapHas(m, k)
    THEN [i \in 1..Len(m) |-> IF m[i].key = k THEN [key |-> k, value |-> v] ELSE m[i]]
    ELSE Append(m, [key |-> k, value |-> v])

MapDelete(m, k) == SelectSeq(m, LAMBDA e : e.key # k)

\* ------------------------------------------------------------------------
\*  LanguageDetector: pure parts
\* ------------------------------------------------------------------------

\* one step of the reduce: (Math.imul(31, s) + c) | 0, on two 16-bit limbs
hashStep(h, c) ==
    LET m == HashMultiplier * h.lo + c
    IN  [lo |-> m % Limb, hi |-> (HashMultiplier * h.hi + (m \div Limb)) % Limb]

RECURSIVE hashLimbs(_)
hashLimbs(t) ==
    IF t = <<>> THEN [lo |-> 0, hi |-> 0]
    ELSE hashStep(hashLimbs(SubSeq(t, 1, Len(t) - 1)), t[Len(t)])

\* the limbs read as a signed 32-bit integer
ToInt32(h) ==
    IF h.hi >= Limb \div 2 THEN (h.hi - Limb) * Limb + h.lo ELSE h.hi * Limb + h.lo

\* hashCode(text)
hashCode(t) == ToInt32(hashLimbs(t))

\* language codes, as sequences of code units: "en", "ja"
LangEn == <<101, 110>>
LangJa == <<106, 97>>

\* results the background script can answer with
ResultEn == [isReliable |-> TRUE, languages |-> <<[language |-> LangEn, percentage |-> 95]>>]
ResultJa == [isReliable |-> TRUE, languages |-> <<[language |-> LangJa, percentage |-> 95]>>]

Results == {ResultEn, ResultJa}

\* the null of a LanguageDetectorResult | null
Null == [null |-> TRUE]

\* the eviction of the response callback that pops the key and keeps its entry
evictKeepEntry(c, q, max) ==
    IF size(q) = max THEN [cache |-> c, entries |-> pop(q)]
    ELSE [cache |-> c, entries |-> q]

\* an eviction that waits until the queue holds more than max keys
evictWhenOver(c, q, max) ==
    IF size(q) > max
    THEN [cache |-> IF popReturn(q).def THEN MapDelete(c, popReturn(q).val) ELSE c,
          entries |-> pop(q)]
    ELSE [cache |-> c, entries |-> q]

\* the eviction of the response callback: pop the oldest key, delete its entry
evict(c, q, max) ==
    IF size(q) = max
    THEN [cache |-> IF popReturn(q).def THEN MapDelete(c, popReturn(q).val) ELSE c,
          entries |-> pop(q)]
    ELSE [cache |-> c, entries |-> q]

\* the callback of chrome.runtime.sendMessage, up to resolve(r)
onResponse(c, q, max, hash, r) ==
    LET e == evict(c, q, max)
    IN  [cache |-> MapSet(e.cache, hash, r),
         entries |-> push(e.entries, hash),
         threw |-> pushThrows(e.entries)]

\* ------------------------------------------------------------------------
\*  Settings
\* ------------------------------------------------------------------------

\* "und", the code of an unknown language, and the hyphen of "en-US"
LangUnd == <<117, 110, 100>>
Hyphen == 45

\* "en-US"
LangEnUS == <<101, 110, 45, 85, 83>>

\* Config.settings.defaultPercentageThreshould
DefaultPercentageThreshold == 20

\* an argument that was left out, and one that was given
Undefined == [def |-> FALSE, val |-> 0]
Some(x) == [def |-> TRUE, val |-> x]

\* Set.prototype.has / add / delete on a Set kept in insertion order
SetHas(s, x) == \E i \in 1..Len(s) : s[i] = x
SetAdd(s, x) == IF SetHas(s, x) THEN s ELSE Append(s, x)
SetDelete(s, x) == SelectSeq(s, LAMBDA y : y # x)

\* SetUtil.equals
SetEquals(a, b) == Len(a) = Len(b) /\ \A i \in 1..Len(a) : SetHas(b, a[i])

\* ArrayUtil.distinct
RECURSIVE distinct(_)
distinct(xs) ==
    IF xs = <<>> THEN <<>>
    ELSE LET d == distinct(SubSeq(xs, 1, Len(xs) - 1))
         IN  IF SetHas(d, xs[Len(xs)]) THEN d ELSE Append(d, xs[Len(xs)])

\* ArrayUtil.remove: the array after the call
remove(xs, x) ==
    IF ~SetHas(xs, x) THEN xs
    ELSE LET index == CHOOSE i \in 1..Len(xs) :
                          xs[i] = x /\ \A j \in 1..(i - 1) : xs[j] # x
         IN  SubSeq(xs, 1, index - 1) \o SubSeq(xs, index + 1, Len(xs))

\* String.prototype.toLocaleLowerCase on ASCII letters
toLocaleLowerCase(t) ==
    [i \in 1..Len(t) |-> IF t[i] >= 65 /\ t[i] <= 90 THEN t[i] + 32 ELSE t[i]]

\* String.prototype.includes
includes(t, w) ==
    \E i \in 0..(Len(t) - Len(w)) : SubSeq(t, i + 1, i + Len(w)) = w

\* a character of the class \s: tab, line feed, carriage return, space
isSpace(c) == c \in {9, 10, 13, 32}

\* s.replace(/\s+/g, ' ')
RECURSIVE replaceSpaces(_)
replaceSpaces(w) ==
    IF w = <<>> THEN <<>>
    ELSE IF isSpace(w[1])
         THEN IF Len(w) >= 2 /\ isSpace(w[2]) THEN replaceSpaces(Tail(w))
              ELSE <<32>> \o replaceSpaces(Tail(w))
         ELSE <<w[1]>> \o replaceSpaces(Tail(w))

\* String.prototype.trim
trim(w) ==
    LET solid == {i \in 1..Len(w) : ~isSpace(w[i])}
    IN  IF solid = {} THEN <<>>
        ELSE SubSeq(w, CHOOSE i \in solid : \A j \in solid : i <= j,
                       CHOOSE i \in solid : \A j \in solid : i >= j)

\* the cleaning of setBlockedWords
cleanWords(words) ==
    SelectSeq([i \in 1..Len(words) |-> trim(replaceSpaces(words[i]))],
              LAMBDA s : s # <<>>)

\* new RegExp(w, 'i') throws a SyntaxError; for patterns of letters, '.' and
\* '(' that is an unterminated group
regExpThrows(w) == includes(w, <<40>>)

\* text.match(r) for r = new RegExp(w, 'i') with w of letters and '.'
match(t, w) ==
    \E k \in 0..(Len(t) - Len(w)) :
        \A i \in 1..Len(w) :
            \/ w[i] = 46 /\ t[k + i] \notin {10, 13}
            \/ toLocaleLowerCase(<<w[i]>>) = toLocaleLowerCase(<<t[k + i]>>)

\* cacheRegExp() throws
cacheRegExpThrows(s) ==
    /\ s.regularExpressionEnabled
    /\ \E i \in 1..Len(s.blockedWords) : regExpThrows(s.blockedWords[i])

\* cacheRegExp(): the settings after the call, whether it threw or not
cacheRegExp(s) ==
    IF s.regularExpressionEnabled /\ ~cacheRegExpThrows(s)
    THEN [s EXCEPT !.regExp = s.blockedWords]
    ELSE s

\* getPreferredLanguages() for navigator.languages = nav
getPreferredLanguages(nav) ==
    distinct(SelectSeq(
        [i \in 1..Len(nav) |->
            toLocaleLowerCase(SubSeq(nav[i], 1, IF Len(nav[i]) < 2 THEN Len(nav[i]) ELSE 2))],
        LAMBDA s : Len(s) = 2))

\* the constructor called with no argument
NoArgs ==
    [enabledDefault |-> Undefined, showFilterButton |-> Undefined,
     filterByLanguage |-> Undefined, blockSelectedLanguages |-> Undefined,
     selectedLanguages |-> Undefined, selectUnknownLanguage |-> Undefined,
     listedLanguages |-> Undefined, percentageThreshold |-> Undefined,
     filterByWord |-> Undefined, excludeWords |-> Undefined,
     regularExpressionEnabled |-> Undefined, filterReplies |-> Undefined]

\* an argument, or its default
orDefault(x, d) == IF x.def THEN x.val ELSE d

\* new Settings(...a) throws: cacheRegExp() at the end of the constructor
constructorThrows(a) ==
    /\ orDefault(a.regularExpressionEnabled, FALSE)
    /\ \E i \in 1..Len(orDefault(a.excludeWords, <<>>)) :
           regExpThrows(orDefault(a.excludeWords, <<>>)[i])

\* new Settings(...a) where navigator.languages = nav
Settings(a, nav) ==
    LET languages == IF a.selectedLanguages.def THEN distinct(a.selectedLanguages.val)
                     ELSE getPreferredLanguages(nav)
        ll == a.listedLanguages.val
    IN  cacheRegExp(
        [enabledDefault |-> orDefault(a.enabledDefault, TRUE),
         showFilterButton |-> orDefault(a.showFilterButton, TRUE),
         filterByLanguage |-> orDefault(a.filterByLanguage, TRUE),
         blockSelectedLanguages |-> orDefault(a.blockSelectedLanguages, FALSE),
         selectedLanguages |-> languages,
         selectUnknownLanguage |-> orDefault(a.selectUnknownLanguage, FALSE),
         listedLanguages |->
             IF a.listedLanguages.def
             THEN SelectSeq(languages, LAMBDA s : ~SetHas(ll, s)) \o distinct(ll)
             ELSE languages,
         percentageThreshold |->
             orDefault(a.percentageThreshold, DefaultPercentageThreshold),
         filterByWord |-> orDefault(a.filterByWord, TRUE),
         blockedWords |-> orDefault(a.excludeWords, <<>>),
         regularExpressionEnabled |-> orDefault(a.regularExpressionEnabled, FALSE),
         regExp |-> <<>>,
         filterReplies |-> orDefault(a.filterReplies, FALSE)])

\* a toJSON that writes the selected languages in the order of selection
toJSONSelectionOrder(s) ==
    [ed |-> s.enabledDefault, ef |-> s.showFilterButton, el |-> s.filterByLanguage,
     bl |-> s.blockSelectedLanguages, il |-> s.selectedLanguages,
     iu |-> s.selectUnknownLanguage, ll |-> s.listedLanguages,
     pt |-> s.percentageThreshold, ew |-> s.filterByWord, bw |-> s.blockedWords,
     re |-> s.regularExpressionEnabled, fr |-> s.filterReplies]

\* toJSON(): the record that JSON.stringify writes. Booleans, finite numbers
\* and arrays of strings come back from JSON.parse as they went in.
toJSON(s) ==
    [ed |-> s.enabledDefault, ef |-> s.showFilterButton, el |-> s.filterByLanguage,
     bl |-> s.blockSelectedLanguages,
     il |-> SelectSeq(s.listedLanguages, LAMBDA l : SetHas(s.selectedLanguages, l)),
     iu |-> s.selectUnknownLanguage, ll |-> s.listedLanguages,
     pt |-> s.percentageThreshold, ew |-> s.filterByWord, bw |-> s.blockedWords,
     re |-> s.regularExpressionEnabled, fr |-> s.filterReplies]

\* the constructor arguments loadFromJSON takes from the parsed record
argsOfJSON(obj) ==
    [enabledDefault |-> Some(obj.ed), showFilterButton |-> Some(obj.ef),
     filterByLanguage |-> Some(obj.el), blockSelectedLanguages |-> Some(obj.bl),
     selectedLanguages |-> Some(obj.il), selectUnknownLanguage |-> Some(obj.iu),
     listedLanguages |-> Some(obj.ll), percentageThreshold |-> Some(obj.pt),
     filterByWord |-> Some(obj.ew), excludeWords |-> Some(obj.bw),
     regularExpressionEnabled |-> Some(obj.re), filterReplies |-> Some(obj.fr)]

\* Settings.loadFromJSON(s) throws
loadFromJSONThrows(obj) == constructorThrows(argsOfJSON(obj))

\* Settings.loadFromJSON(s) for a string that was written by toJSON
loadFromJSON(obj) == Settings(argsOfJSON(obj), <<>>)

\* setSelectedLanguage(language, value) throws
setSelectedLanguageThrows(s, language) == ~SetHas(s.listedLanguages, language)

\* a setSelectedLanguage that changes the selection before it checks the list
setSelectedLanguageUnchecked(s, language, value) ==
    IF value
    THEN [s EXCEPT !.selectedLanguages = SetAdd(s.selectedLanguages, language)]
    ELSE [s EXCEPT !.selectedLanguages = SetDelete(s.selectedLanguages, language)]

\* setSelectedLanguage(language, value): the settings after the call
setSelectedLanguage(s, language, value) ==
    IF setSelectedLanguageThrows(s, language) THEN s
    ELSE IF value
         THEN [s EXCEPT !.selectedLanguages = SetAdd(s.selectedLanguages, language)]
         ELSE [s EXCEPT !.selectedLanguages = SetDelete(s.selectedLanguages, language)]

\* an addListedLanguage that does not look for the language in the list
addListedLanguageAgain(s, language, include) ==
    [s EXCEPT !.listedLanguages = Append(s.listedLanguages, language),
              !.selectedLanguages = IF include THEN SetAdd(@, language) ELSE @]

\* addListedLanguage(language, include)
addListedLanguage(s, language, include) ==
    IF SetHas(s.listedLanguages, language) THEN s
    ELSE [s EXCEPT !.listedLanguages = Append(s.listedLanguages, language),
                   !.selectedLanguages = IF include THEN SetAdd(@, language) ELSE @]

\* removeListedLanguage(language)
removeListedLanguage(s, language) ==
    [s EXCEPT !.selectedLanguages = SetDelete(@, language),
              !.listedLanguages = remove(@, language)]

\* setPercentageThreshold(value): Math.max(0, Math.min(100, value))
setPercentageThreshold(s, value) ==
    LET lower == IF value < 100 THEN value ELSE 100
    IN  [s EXCEPT !.percentageThreshold = IF lower > 0 THEN lower ELSE 0]

\* setBlockedWords(words): the settings after the call, whether
\* cacheRegExp() threw or not
setBlockedWords(s, words) == cacheRegExp([s EXCEPT !.blockedWords = cleanWords(words)])

\* setBlockedWords(words) throws
setBlockedWordsThrows(s, words) ==
    cacheRegExpThrows([s EXCEPT !.blockedWords = cleanWords(words)])

\* setRegularExpression(enabled): the settings after the call, whether
\* cacheRegExp() threw or not
setRegularExpression(s, on) == cacheRegExp([s EXCEPT !.regularExpressionEnabled = on])

\* setRegularExpression(enabled) throws
setRegularExpressionThrows(s, on) ==
    cacheRegExpThrows([s EXCEPT !.regularExpressionEnabled = on])

\* the languages at or above the threshold
filteredLanguages(st, r) ==
    LET kept == SelectSeq(r.languages, LAMBDA l : l.percentage >= st.percentageThreshold)
    IN  [i \in 1..Len(kept) |-> kept[i].language]

\* a matchByLanguage that looks the whole code up, region suffix included
matchByLanguageNoCut(st, r) ==
    LET filtered == filteredLanguages(st, r)
    IN  IF Len(filtered) = 0 THEN ~st.selectUnknownLanguage
        ELSE ~(\E i \in 1..Len(filtered) :
                  \/ (filtered[i] = LangUnd /\ st.selectUnknownLanguage)
                  \/ SetHas(st.selectedLanguages, filtered[i]))

\* Settings.matchByLanguage: TRUE when the result matches no selected language.
\* (Its shortcut tests `!this.selectedLanguages`, a Set, and never holds.)
matchByLanguage(st, r) ==
    LET filtered == filteredLanguages(st, r)
    IN  IF Len(filtered) = 0 THEN ~st.selectUnknownLanguage
        ELSE ~(\E i \in 1..Len(filtered) :
                  LET lang == filtered[i]
                      code == IF Len(lang) >= 3 /\ lang[3] = Hyphen
                              THEN SubSeq(lang, 1, 2) ELSE lang
                  IN  \/ (lang = LangUnd /\ st.selectUnknownLanguage)
                      \/ SetHas(st.selectedLanguages, code))

\* Settings.shouldFilterByLanguage
shouldFilterByLanguage(st, r) ==
    IF ~st.filterByLanguage THEN FALSE
    ELSE IF matchByLanguage(st, r) THEN ~st.blockSelectedLanguages
         ELSE st.blockSelectedLanguages

\* a shouldFilterByWord that compares the blocked words as they are written
shouldFilterByWordExact(st, t) ==
    IF ~st.filterByWord THEN FALSE
    ELSE IF st.regularExpressionEnabled
         THEN \E i \in 1..Len(st.regExp) : match(t, st.regExp[i])
         ELSE \E i \in 1..Len(st.blockedWords) : includes(t, st.blockedWords[i])

\* Settings.shouldFilterByWord
shouldFilterByWord(st, t) ==
    IF ~st.filterByWord THEN FALSE
    ELSE IF st.regularExpressionEnabled
         THEN \E i \in 1..Len(st.regExp) : match(t, st.regExp[i])
         ELSE \E i \in 1..Len(st.blockedWords) :
                 includes(toLocaleLowerCase(t), toLocaleLowerCase(st.blockedWords[i]))

\* a shouldRefreshFilter that does not compare filterReplies
shouldRefreshFilterNoReplies(new, old) ==
    \/ ~SetEquals(old.selectedLanguages, new.selectedLanguages)
    \/ old.filterByLanguage # new.filterByLanguage
    \/ old.blockSelectedLanguages # new.blockSelectedLanguages
    \/ old.selectUnknownLanguage # new.selectUnknownLanguage
    \/ old.percentageThreshold # new.percentageThreshold
    \/ old.filterByWord # new.filterByWord
    \/ old.regularExpressionEnabled # new.regularExpressionEnabled
    \/ ~SetEquals(distinct(old.blockedWords), distinct(new.blockedWords))

\* a shouldRefreshFilter that does not compare the blocked words
shouldRefreshFilterNoWords(new, old) ==
    \/ ~SetEquals(old.selectedLanguages, new.selectedLanguages)
    \/ old.filterByLanguage # new.filterByLanguage
    \/ old.blockSelectedLanguages # new.blockSelectedLanguages
    \/ old.selectUnknownLanguage # new.selectUnknownLanguage
    \/ old.percentageThreshold # new.percentageThreshold
    \/ old.filterByWord # new.filterByWord
    \/ old.regularExpressionEnabled # new.regularExpressionEnabled
    \/ old.filterReplies # new.filterReplies

\* Settings.shouldRefreshFilter: new.shouldRefreshFilter(old)
shouldRefreshFilter(new, old) ==
    \/ ~SetEquals(old.selectedLanguages, new.selectedLanguages)
    \/ old.filterByLanguage # new.filterByLanguage
    \/ old.blockSelectedLanguages # new.blockSelectedLanguages
    \/ old.selectUnknownLanguage # new.selectUnknownLanguage
    \/ old.percentageThreshold # new.percentageThreshold
    \/ old.filterByWord # new.filterByWord
    \/ old.regularExpressionEnabled # new.regularExpressionEnabled
    \/ ~SetEquals(distinct(old.blockedWords), distinct(new.blockedWords))
    \/ old.filterReplies # new.filterReplies

\* the settings the comment is filtered under
SettingsAllowEn ==
    Settings([NoArgs EXCEPT !.selectedLanguages = Some(<<LangEn>>),
                            !.percentageThreshold = Some(50)], <<>>)
SettingsAllowJa ==
    Settings([NoArgs EXCEPT !.selectedLanguages = Some(<<LangJa>>),
                            !.percentageThreshold = Some(50),
                            !.filterReplies = Some(TRUE)], <<>>)

\* both languages allowed and the word "c" blocked
SettingsBlockWord ==
    Settings([NoArgs EXCEPT !.selectedLanguages = Some(<<LangEn, LangJa>>),
                            !.percentageThreshold = Some(50),
                            !.excludeWords = Some(<< <<99>> >>),
                            !.filterReplies = Some(TRUE)], <<>>)

SettingsPool == {SettingsAllowEn, SettingsAllowJa, SettingsBlockWord}

\* ------------------------------------------------------------------------
\*  CommentInfo: pure parts
\* ------------------------------------------------------------------------

\* the guard of refreshAll / refreshFilter that lets a destroyed comment through
destroyedGuardOff(a) == FALSE

\* the guard of refreshAll / refreshFilter: the comment was destroyed
isDestroyed(a) == a < 0

\* incrementAge(): the new age
\* an incrementAge that does not wrap
incrementAgeUnbounded(a) == a + 1

\* incrementAge(): the new age
incrementAge(a) == (a + 1) % AgeModulus

\* a verifyAge that accepts every request
verifyAgeAlways(requested, current) == TRUE

\* verifyAge(age): TRUE when it does not throw
verifyAge(requested, current) == requested = current

\* a catch handler that re-throws every error
catchRethrowAll(error) == "error"

\* the catch handler of refreshAll / refreshFilter: what the promise settles to
catchOutdated(error) == IF error = "outdated" THEN "false" ELSE "error"

\* a shouldFilter that treats a reply like a top-level comment
shouldFilterReplies(lang, on, st, reply, t) ==
    IF lang = Null THEN FALSE
    ELSE IF ~on THEN FALSE
    ELSE shouldFilterByLanguage(st, lang) \/ shouldFilterByWord(st, t)

\* CommentInfo.shouldFilter
shouldFilter(lang, on, st, reply, t) ==
    IF lang = Null THEN FALSE
    ELSE IF ~on THEN FALSE
    ELSE IF reply /\ ~st.filterReplies THEN FALSE
    ELSE shouldFilterByLanguage(st, lang) \/ shouldFilterByWord(st, t)

\* ------------------------------------------------------------------------
\*  State
\* ------------------------------------------------------------------------

VARIABLES
    \* the free-standing CircularBuffer
    xs,
    \* the elements pushed since the last clear and not yet popped, oldest first
    xsFifo,
    \* the last call on xs: its name, whether it threw, what it returned and
    \* what a FIFO queue returns there
    xsLast,
    \* TRUE once push was called on the full buffer
    xsOverflow,
    \* LanguageDetector.cache, LanguageDetector.entries, LanguageDetector.maxCacheSize
    cache, entries, maxCacheSize,
    \* the messages sent to the background script and not yet answered
    inflight,
    \* the fingerprints inserted so far, while the misses came one after the
    \* other on a detector that was never cleared
    run,
    \* the last direct detectLanguage call
    lastCall,
    \* TRUE once entries.push threw in the response callback
    pushThrew,
    \* CommentInfo fields
    age, text, detectedLanguage, waited, display, isReply,
    \* the text of the comment element and the application context
    domText, enabled, settings,
    \* the refreshAll / refreshFilter calls made so far, in call order: the
    \* ticket of each, the step its promise chain waits for (pc), the result
    \* it carries to saveLanguage, what its promise settled to (outcome),
    \* and whether and where a verifyAge of it threw (stale, threwAt)
    pipes,
    \* the settle delays applyFilter started since the stored text last changed
    settleDelays,
    \* TRUE when the last setter called on settings threw
    setterThrew,
    \* the settings before an update, and what shouldRefreshFilter said of it
    oldSettings, refreshNeeded,
    \* a call of the Settings constructor: its arguments, and the record that
    \* toJSON wrote for the instance
    ctor,
    \* the fingerprint whose result saveLanguage stored in detectedLanguage
    savedFor,
    \* a ThreadManager with its comments, its calls and the reply anchors of
    \* the page
    thread,
    \* the App: its context, whether it is ready, and its thread managers
    app

bufVars == <<xs, xsFifo, xsLast, xsOverflow>>
detVars == <<cache, entries, maxCacheSize, inflight, run, lastCall, pushThrew>>
itemVars == <<age, text, detectedLanguage, waited, display, isReply, domText,
              enabled, settings, pipes, settleDelays>>
itemRest == <<age, text, detectedLanguage, waited, display, isReply, domText,
              enabled, pipes, settleDelays>>
setRest == <<setterThrew, oldSettings, refreshNeeded, ctor>>
setVars == <<setRest, savedFor>>
threadVars == <<thread, app>>
vars == <<bufVars, detVars, itemVars, setVars, threadVars>>

Values == 1..NumValues

NoCall == [op |-> "none", threw |-> FALSE, ret |-> [def |-> FALSE, val |-> 0],
           expected |-> [def |-> FALSE, val |-> 0]]

RunBroken == [ok |-> FALSE, keys |-> <<>>]

\* ------------------------------------------------------------------------
\*  Initial states
\* ------------------------------------------------------------------------

\* a new CircularBuffer of any capacity; the detector and the comment idle
InitBuffer ==
    /\ xs \in {CircularBuffer(c) : c \in 1..MaxCapacity}
    /\ xsFifo = <<>>
    /\ xsLast = NoCall
    /\ xsOverflow = FALSE
    /\ maxCacheSize = 1
    /\ cache = <<>>
    /\ entries = CircularBuffer(maxCacheSize)
    /\ inflight = <<>>
    /\ run = [ok |-> TRUE, keys |-> <<>>]
    /\ lastCall = [kind |-> "none", text |-> <<>>, result |-> Null]
    /\ pushThrew = FALSE
    /\ age = 0
    /\ text = <<>>
    /\ detectedLanguage = Null
    /\ waited = FALSE
    /\ display = ""
    /\ isReply = FALSE
    /\ domText = <<>>
    /\ enabled = TRUE
    /\ settings = Null
    /\ pipes = <<>>
    /\ settleDelays = 0
    /\ setterThrew = FALSE
    /\ oldSettings = Null
    /\ refreshNeeded = Null
    /\ ctor = Null
    /\ savedFor = Undefined
    /\ thread = Null
    /\ app = Null

\* new LanguageDetector(maxCacheSize); the buffer and the comment idle
InitDetector ==
    /\ xs = CircularBuffer(1)
    /\ xsFifo = <<>>
    /\ xsLast = NoCall
    /\ xsOverflow = FALSE
    /\ maxCacheSize \in 1..MaxCacheSize
    /\ cache = <<>>
    /\ entries = CircularBuffer(maxCacheSize)
    /\ inflight = <<>>
    /\ run = [ok |-> TRUE, keys |-> <<>>]
    /\ lastCall = [kind |-> "none", text |-> <<>>, result |-> Null]
    /\ pushThrew = FALSE
    /\ age = 0
    /\ text = <<>>
    /\ detectedLanguage = Null
    /\ waited = FALSE
    /\ display = ""
    /\ isReply = FALSE
    /\ domText = <<>>
    /\ enabled = TRUE
    /\ settings = Null
    /\ pipes = <<>>
    /\ settleDelays = 0
    /\ setterThrew = FALSE
    /\ oldSettings = Null
    /\ refreshNeeded = Null
    /\ ctor = Null
    /\ savedFor = Undefined
    /\ thread = Null
    /\ app = Null

\* ------------------------------------------------------------------------
\*  CircularBuffer calls
\* ------------------------------------------------------------------------

\* xs.push(e)
Push(e) ==
    /\ xs' = push(xs, e)
    /\ xsFifo' = IF pushThrows(xs) THEN xsFifo ELSE Append(xsFifo, e)
    /\ xsLast' = [NoCall EXCEPT !.op = "push", !.threw = pushThrows(xs)]
    /\ xsOverflow' = (xsOverflow \/ pushThrows(xs))

\* xs.pop()
Pop ==
    /\ xs' = pop(xs)
    /\ xsFifo' = IF xsFifo = <<>> THEN xsFifo ELSE Tail(xsFifo)
    /\ xsLast' = [NoCall EXCEPT !.op = "pop", !.ret = popReturn(xs),
                      !.expected = IF xsFifo = <<>> THEN [def |-> FALSE, val |-> 0]
                                   ELSE [def |-> TRUE, val |-> Head(xsFifo)]]
    /\ UNCHANGED xsOverflow

\* xs.clear()
Clear ==
    /\ xs' = clear(xs)
    /\ xsFifo' = <<>>
    /\ xsLast' = [NoCall EXCEPT !.op = "clear"]
    /\ UNCHANGED xsOverflow

NextBuffer ==
    \/ \E e \in Values : Push(e) /\ UNCHANGED <<detVars, itemVars, setVars, threadVars>>
    \/ Pop /\ UNCHANGED <<detVars, itemVars, setVars, threadVars>>
    \/ Clear /\ UNCHANGED <<detVars, itemVars, setVars, threadVars>>

SpecBuffer == InitBuffer /\ [][NextBuffer]_vars

\* ------------------------------------------------------------------------
\*  LanguageDetector calls
\* ------------------------------------------------------------------------

RemoveAt(q, i) == SubSeq(q, 1, i - 1) \o SubSeq(q, i + 1, Len(q))

\* detectLanguage(text) by another caller than the comment, cache hit:
\* Promise.resolve(result)
DetectLanguageHit(t) ==
    /\ MapHas(cache, hashCode(t))
    /\ lastCall' = [kind |-> "hit", text |-> t, result |-> MapGet(cache, hashCode(t))]
    /\ UNCHANGED <<cache, entries, maxCacheSize, inflight, run, pushThrew>>

\* detectLanguage(text) by another caller than the comment, cache miss:
\* the text is sent to the background script
DetectLanguageMiss(t) ==
    /\ ~MapHas(cache, hashCode(t))
    /\ Len(inflight) < MaxInflight
    /\ inflight' = Append(inflight, [text |-> t, hash |-> hashCode(t), pipe |-> 0])
    /\ run' = IF inflight # <<>> THEN RunBroken ELSE run
    /\ lastCall' = [kind |-> "miss", text |-> t, result |-> Null]
    /\ UNCHANGED <<cache, entries, maxCacheSize, pushThrew>>

\* the background script answers message i with r: the callback stores the
\* result and resolves the promise of the caller
OracleResponse(i, r) ==
    LET req == inflight[i]
        o == onResponse(cache, entries, maxCacheSize, req.hash, r)
    IN  /\ cache' = o.cache
        /\ entries' = o.entries
        /\ pushThrew' = (pushThrew \/ o.threw)
        /\ inflight' = RemoveAt(inflight, i)
        /\ run' = IF run.ok /\ req.hash \notin {run.keys[j] : j \in 1..Len(run.keys)}
                            /\ Len(run.keys) <= maxCacheSize
                  THEN [run EXCEPT !.keys = Append(@, req.hash)]
                  ELSE RunBroken
        /\ pipes' = IF req.pipe # 0 /\ ~o.threw
                    THEN [pipes EXCEPT ![req.pipe].pc = "save", ![req.pipe].result = r]
                    ELSE pipes
        /\ UNCHANGED <<maxCacheSize, lastCall>>

\* clearCache()
ClearCache ==
    /\ cache' = <<>>
    /\ entries' = clear(entries)
    /\ run' = RunBroken
    /\ UNCHANGED <<maxCacheSize, inflight, lastCall, pushThrew>>

itemFields == <<age, text, detectedLanguage, waited, display, isReply, domText,
                enabled, settings, settleDelays>>

NextCacheNoClear ==
    \/ \E t \in Texts : DetectLanguageHit(t) /\ UNCHANGED <<bufVars, itemVars, setVars, threadVars>>
    \/ \E t \in Texts : DetectLanguageMiss(t) /\ UNCHANGED <<bufVars, itemVars, setVars, threadVars>>
    \/ \E i \in 1..Len(inflight) : \E r \in Results :
            OracleResponse(i, r) /\ UNCHANGED <<bufVars, itemFields, setVars, threadVars>>

NextCache ==
    \/ NextCacheNoClear
    \/ ClearCache /\ UNCHANGED <<bufVars, itemVars, setVars, threadVars>>

SpecCache == InitDetector /\ [][NextCache]_vars

\* the detector when nobody calls clearCache
SpecCacheNoClear ==
    InitDetector /\ [][NextCacheNoClear]_vars

\* ------------------------------------------------------------------------
\*  CommentInfo calls and the steps of their promise chains
\* ------------------------------------------------------------------------

\* the texts the comment element shows
DomTexts == {TextAa, TextC}

\* new CommentInfo(context, elem, isReply) with a detector that caches one
\* result; the buffer idle
InitItem ==
    /\ xs = CircularBuffer(1)
    /\ xsFifo = <<>>
    /\ xsLast = NoCall
    /\ xsOverflow = FALSE
    /\ maxCacheSize = 1
    /\ cache = <<>>
    /\ entries = CircularBuffer(maxCacheSize)
    /\ inflight = <<>>
    /\ run = [ok |-> TRUE, keys |-> <<>>]
    /\ lastCall = [kind |-> "none", text |-> <<>>, result |-> Null]
    /\ pushThrew = FALSE
    /\ age = 0
    /\ text = <<>>
    /\ detectedLanguage = Null
    /\ waited = FALSE
    /\ display = ""
    /\ isReply \in BOOLEAN
    /\ domText \in DomTexts
    /\ enabled = TRUE
    /\ settings = SettingsAllowEn
    /\ pipes = <<>>
    /\ settleDelays = 0
    /\ setterThrew = FALSE
    /\ oldSettings = Null
    /\ refreshNeeded = Null
    /\ ctor = Null
    /\ savedFor = Undefined
    /\ thread = Null
    /\ app = Null

Pipes == 1..Len(pipes)

\* a call that returned Promise.resolve(false) at once
ResolvedFalse(kind) ==
    [kind |-> kind, ticket |-> age, minted |-> FALSE, pc |-> "done", result |-> Null,
     outcome |-> "false", stale |-> FALSE, threwAt |-> "", hash |-> Undefined]

\* step p throws: the catch handler settles the promise of the call
Throw(p, error) ==
    pipes' = [pipes EXCEPT ![p].pc = "done", ![p].outcome = catchOutdated(error),
                           ![p].stale = (error = "outdated"), ![p].result = Null,
                           ![p].threwAt = pipes[p].pc, ![p].hash = Undefined]

\* an applyFilter that never shows a hidden element again
applyFilterKeepsHidden(disp, w, sf) ==
    IF (disp = "none") # sf
    THEN IF sf
         THEN IF ~w
              THEN [display |-> disp, pc |-> "delay", outcome |-> "pending"]
              ELSE [display |-> "none", pc |-> "done", outcome |-> "true"]
         ELSE [display |-> disp, pc |-> "done", outcome |-> "false"]
    ELSE [display |-> disp, pc |-> "done", outcome |-> IF sf THEN "true" ELSE "false"]

\* applyFilter(age) after verifyAge: the display, and how the promise goes on.
\* (Its test `this.detectLanguage == null` compares a method and never holds.)
applyFilter(disp, w, sf) ==
    IF (disp = "none") # sf
    THEN IF sf
         THEN IF ~w
              THEN [display |-> disp, pc |-> "delay", outcome |-> "pending"]
              ELSE [display |-> "none", pc |-> "done", outcome |-> "true"]
         ELSE [display |-> "", pc |-> "done", outcome |-> "false"]
    ELSE [display |-> disp, pc |-> "done", outcome |-> IF sf THEN "true" ELSE "false"]

\* a fetchText that keeps the classification of the old text
fetchTextKeepsLanguage(t, lang, w, fetched) ==
    IF fetched # t
    THEN [text |-> fetched, detectedLanguage |-> lang, waited |-> FALSE]
    ELSE [text |-> t, detectedLanguage |-> lang, waited |-> w]

\* fetchText(age) after verifyAge: the fields text, detectedLanguage and
\* waited once the text of the element was read
fetchText(t, lang, w, fetched) ==
    IF fetched # t
    THEN [text |-> fetched, detectedLanguage |-> Null, waited |-> FALSE]
    ELSE [text |-> t, detectedLanguage |-> lang, waited |-> w]

\* refreshAll(): the synchronous part
RefreshAll ==
    /\ Len(pipes) < MaxPipes
    /\ IF isDestroyed(age)
       THEN /\ pipes' = Append(pipes, ResolvedFalse("all"))
            /\ age' = age
       ELSE /\ age' = incrementAge(age)
            /\ pipes' = Append(pipes,
                  [kind |-> "all", ticket |-> incrementAge(age), minted |-> TRUE,
                   pc |-> "fetch", result |-> Null, outcome |-> "pending",
                   stale |-> FALSE, threwAt |-> "", hash |-> Undefined])
    /\ UNCHANGED <<text, detectedLanguage, waited, display, isReply, domText,
                   enabled, settings, detVars>>

\* .then(() => this.fetchText(requestAge))
FetchText(p) ==
    /\ pipes[p].pc = "fetch"
    /\ IF ~verifyAge(pipes[p].ticket, age)
       THEN /\ Throw(p, "outdated")
            /\ UNCHANGED <<text, detectedLanguage, waited, settleDelays, savedFor>>
       ELSE LET f == fetchText(text, detectedLanguage, waited, domText)
            IN  /\ pipes' = [pipes EXCEPT ![p].pc = "detect"]
                /\ text' = f.text
                /\ detectedLanguage' = f.detectedLanguage
                /\ waited' = f.waited
                /\ settleDelays' = IF domText # text THEN 0 ELSE settleDelays
                /\ savedFor' = IF domText # text THEN Undefined ELSE savedFor
    /\ UNCHANGED <<age, display, isReply, domText, enabled, settings, detVars>>

\* .then(() => this.detectLanguage(requestAge)): verifyAge, then
\* LanguageDetector.detectLanguage(this.text) answers from the cache or sends
\* the text to the background script
DetectLanguage(p) ==
    /\ pipes[p].pc = "detect"
    /\ IF ~verifyAge(pipes[p].ticket, age)
       THEN /\ Throw(p, "outdated")
            /\ UNCHANGED <<inflight, run>>
       ELSE IF MapHas(cache, hashCode(text))
       THEN /\ pipes' = [pipes EXCEPT ![p].pc = "save",
                                      ![p].result = MapGet(cache, hashCode(text)),
                                      ![p].hash = Some(hashCode(text))]
            /\ UNCHANGED <<inflight, run>>
       ELSE /\ Len(inflight) < MaxInflight
            /\ inflight' = Append(inflight,
                                  [text |-> text, hash |-> hashCode(text), pipe |-> p])
            /\ run' = IF inflight # <<>> THEN RunBroken ELSE run
            /\ pipes' = [pipes EXCEPT ![p].pc = "oracle",
                                      ![p].hash = Some(hashCode(text))]
    /\ UNCHANGED <<itemFields, cache, entries, maxCacheSize, lastCall, pushThrew>>

\* a failing detectLanguage step whose error handler hides the element
DetectLanguageThrowsHides(p) ==
    /\ pipes[p].pc = "detect"
    /\ verifyAge(pipes[p].ticket, age)
    /\ ~MapHas(cache, hashCode(text))
    /\ Throw(p, "sendMessage")
    /\ display' = "none"
    /\ UNCHANGED <<age, text, detectedLanguage, waited, isReply, domText, enabled,
                   settings, settleDelays, detVars>>

\* the same step when chrome.runtime.sendMessage throws: the promise of
\* detectLanguage rejects with that error
DetectLanguageThrows(p) ==
    /\ pipes[p].pc = "detect"
    /\ verifyAge(pipes[p].ticket, age)
    /\ ~MapHas(cache, hashCode(text))
    /\ Throw(p, "sendMessage")
    /\ UNCHANGED <<itemFields, detVars>>

\* a saveLanguage that does not verify the age
SaveLanguageUnverified(p) ==
    /\ pipes[p].pc = "save"
    /\ detectedLanguage' = pipes[p].result
    /\ savedFor' = pipes[p].hash
    /\ pipes' = [pipes EXCEPT ![p].pc = "apply", ![p].result = Null,
                              ![p].hash = Undefined]
    /\ UNCHANGED <<age, text, waited, display, isReply, domText, enabled, settings,
                   detVars>>

\* .then((result) => this.saveLanguage(requestAge, result))
SaveLanguage(p) ==
    /\ pipes[p].pc = "save"
    /\ IF ~verifyAge(pipes[p].ticket, age)
       THEN /\ Throw(p, "outdated")
            /\ UNCHANGED <<detectedLanguage, savedFor>>
       ELSE /\ detectedLanguage' = pipes[p].result
            /\ savedFor' = pipes[p].hash
            /\ pipes' = [pipes EXCEPT ![p].pc = "apply", ![p].result = Null,
                                      ![p].hash = Undefined]
    /\ UNCHANGED <<age, text, waited, display, isReply, domText, enabled, settings,
                   detVars>>

\* .then(() => this.applyFilter(requestAge))
ApplyFilter(p) ==
    /\ pipes[p].pc = "apply"
    /\ IF ~verifyAge(pipes[p].ticket, age)
       THEN /\ Throw(p, "outdated")
            /\ UNCHANGED <<display, settleDelays>>
       ELSE LET a == applyFilter(display, waited,
                        shouldFilter(detectedLanguage, enabled, settings, isReply, text))
            IN  /\ display' = a.display
                /\ pipes' = [pipes EXCEPT ![p].pc = a.pc, ![p].outcome = a.outcome]
                /\ settleDelays' = IF a.pc = "delay" THEN settleDelays + 1
                                   ELSE settleDelays
    /\ UNCHANGED <<age, text, detectedLanguage, waited, isReply, domText, enabled,
                   settings, detVars>>

\* PromiseUtil.delay(300).then(...): the timer of applyFilter fires
DelayElapsed(p) ==
    /\ pipes[p].pc = "delay"
    /\ display' = "none"
    /\ waited' = TRUE
    /\ pipes' = [pipes EXCEPT ![p].pc = "done", ![p].outcome = "true"]
    /\ UNCHANGED <<age, text, detectedLanguage, isReply, domText, enabled, settings,
                   detVars>>

\* refreshFilter(): applyFilter(this.age) runs within the call
RefreshFilter ==
    /\ Len(pipes) < MaxPipes
    /\ IF isDestroyed(age)
       THEN /\ pipes' = Append(pipes, ResolvedFalse("filter"))
            /\ UNCHANGED <<display, settleDelays>>
       ELSE IF ~verifyAge(age, age)
       THEN /\ pipes' = Append(pipes, [ResolvedFalse("filter") EXCEPT
                                          !.outcome = catchOutdated("outdated"),
                                          !.stale = TRUE, !.threwAt = "apply"])
            /\ UNCHANGED <<display, settleDelays>>
       ELSE LET a == applyFilter(display, waited,
                        shouldFilter(detectedLanguage, enabled, settings, isReply, text))
            IN  /\ display' = a.display
                /\ pipes' = Append(pipes,
                      [kind |-> "filter", ticket |-> age, minted |-> FALSE,
                       pc |-> a.pc, result |-> Null, outcome |-> a.outcome,
                       stale |-> FALSE, threwAt |-> "", hash |-> Undefined])
                /\ settleDelays' = IF a.pc = "delay" THEN settleDelays + 1
                                   ELSE settleDelays
    /\ UNCHANGED <<age, text, detectedLanguage, waited, isReply, domText, enabled,
                   settings, detVars>>

\* destroy()
Destroy ==
    /\ age' = -1
    /\ UNCHANGED <<text, detectedLanguage, waited, display, isReply, domText, enabled,
                   settings, pipes, detVars>>

\* the page changes the text of the comment element
MutateText(t) ==
    /\ domText' = t
    /\ UNCHANGED <<age, text, detectedLanguage, waited, display, isReply, enabled,
                   settings, pipes, detVars>>

\* the application replaces context.settings
ChangeSettings(st) ==
    /\ settings' = st
    /\ UNCHANGED <<age, text, detectedLanguage, waited, display, isReply, domText,
                   enabled, pipes, detVars>>

\* the application switches context.enabled
ToggleEnabled ==
    /\ enabled' = ~enabled
    /\ UNCHANGED <<age, text, detectedLanguage, waited, display, isReply, domText,
                   settings, pipes, detVars>>

NextItem ==
    \/ RefreshAll /\ UNCHANGED <<bufVars, setVars, threadVars, settleDelays>>
    \/ RefreshFilter /\ UNCHANGED <<bufVars, setVars, threadVars>>
    \/ Destroy /\ UNCHANGED <<bufVars, setVars, threadVars, settleDelays>>
    \/ \E p \in Pipes : FetchText(p) /\ UNCHANGED <<bufVars, setRest, threadVars>>
    \/ \E p \in Pipes : DetectLanguage(p) /\ UNCHANGED <<bufVars, setVars, threadVars>>
    \/ \E p \in Pipes : DetectLanguageThrows(p) /\ UNCHANGED <<bufVars, setVars, threadVars>>
    \/ \E i \in 1..Len(inflight) : \E r \in Results :
            OracleResponse(i, r) /\ UNCHANGED <<bufVars, itemFields, setVars, threadVars>>
    \/ \E p \in Pipes : SaveLanguage(p) /\ UNCHANGED <<bufVars, setRest, threadVars, settleDelays>>
    \/ \E p \in Pipes : ApplyFilter(p) /\ UNCHANGED <<bufVars, setVars, threadVars>>
    \/ \E p \in Pipes : DelayElapsed(p) /\ UNCHANGED <<bufVars, setVars, threadVars, settleDelays>>
    \/ \E t \in DomTexts : MutateText(t) /\ UNCHANGED <<bufVars, setVars, threadVars, settleDelays>>
    \/ \E st \in SettingsPool : ChangeSettings(st) /\ UNCHANGED <<bufVars, setVars, threadVars, settleDelays>>
    \/ ToggleEnabled /\ UNCHANGED <<bufVars, setVars, threadVars, settleDelays>>

SpecItem == InitItem /\ [][NextItem]_vars

\* a CommentInfo whose earlier refreshAll calls have all settled: a new one,
\* or one that has counted to the last age before the counter wraps
InitAge ==
    /\ xs = CircularBuffer(1)
    /\ xsFifo = <<>>
    /\ xsLast = NoCall
    /\ xsOverflow = FALSE
    /\ maxCacheSize = 1
    /\ cache = <<>>
    /\ entries = CircularBuffer(maxCacheSize)
    /\ inflight = <<>>
    /\ run = [ok |-> TRUE, keys |-> <<>>]
    /\ lastCall = [kind |-> "none", text |-> <<>>, result |-> Null]
    /\ pushThrew = FALSE
    /\ age \in {0, AgeModulus - 2, AgeModulus - 1}
    /\ text = <<>>
    /\ detectedLanguage = Null
    /\ waited = FALSE
    /\ display = ""
    /\ isReply = FALSE
    /\ domText = TextAa
    /\ enabled = TRUE
    /\ settings = SettingsAllowEn
    /\ pipes = <<>>
    /\ settleDelays = 0
    /\ setterThrew = FALSE
    /\ oldSettings = Null
    /\ refreshNeeded = Null
    /\ ctor = Null
    /\ savedFor = Undefined
    /\ thread = Null
    /\ app = Null

SpecAge == InitAge /\ [][NextItem]_vars

\* ------------------------------------------------------------------------
\*  Settings: construction and setter calls
\* ------------------------------------------------------------------------

\* the language codes of the menu
Languages == {LangEn, LangJa}

\* navigator.languages
Navigators == {<<LangEnUS, LangEn>>, <<LangJa>>}

\* blocked word lists as the popup hands them over: ["  bb ", " "], ["("], ["a."]
WordsBb == << <<32, 32, 98, 98, 32>>, <<32>> >>
WordsParen == << <<40>> >>
WordsDot == << <<97, 46>> >>
WordLists == {<<>>, WordsBb, WordsParen, WordsDot}

\* thresholds handed to setPercentageThreshold
Thresholds == {-5, 20, 150}

\* the arguments the constructor is called with
ConstructorArgs ==
    {[enabledDefault |-> f, showFilterButton |-> f, filterByLanguage |-> f,
      blockSelectedLanguages |-> f, selectedLanguages |-> sl,
      selectUnknownLanguage |-> f, listedLanguages |-> ll,
      percentageThreshold |-> pt, filterByWord |-> f, excludeWords |-> w,
      regularExpressionEnabled |-> f, filterReplies |-> f] :
        f \in {Undefined, Some(TRUE), Some(FALSE)},
        sl \in {Undefined, Some(<<>>), Some(<<LangEn, LangEn>>), Some(<<LangJa, LangEn>>)},
        ll \in {Undefined, Some(<<>>), Some(<<LangJa, LangJa>>), Some(<<LangEn, LangJa>>)},
        pt \in {Undefined, Some(150)},
        w \in {Undefined} \cup {Some(ws) : ws \in WordLists}}

\* new Settings(...a) that did not throw; the buffer, the detector and the
\* comment idle
InitSettings ==
    /\ xs = CircularBuffer(1)
    /\ xsFifo = <<>>
    /\ xsLast = NoCall
    /\ xsOverflow = FALSE
    /\ maxCacheSize = 1
    /\ cache = <<>>
    /\ entries = CircularBuffer(maxCacheSize)
    /\ inflight = <<>>
    /\ run = [ok |-> TRUE, keys |-> <<>>]
    /\ lastCall = [kind |-> "none", text |-> <<>>, result |-> Null]
    /\ pushThrew = FALSE
    /\ age = 0
    /\ text = <<>>
    /\ detectedLanguage = Null
    /\ waited = FALSE
    /\ display = ""
    /\ isReply = FALSE
    /\ domText = <<>>
    /\ enabled = TRUE
    /\ settings \in {Settings(a, nav) :
                        a \in {b \in ConstructorArgs : ~constructorThrows(b)},
                        nav \in Navigators}
    /\ pipes = <<>>
    /\ settleDelays = 0
    /\ setterThrew = FALSE
    /\ oldSettings = Null
    /\ refreshNeeded = Null
    /\ ctor = Null
    /\ savedFor = Undefined
    /\ thread = Null
    /\ app = Null

\* what a setter call leaves alone
settingsFrame == <<bufVars, detVars, itemRest, oldSettings, refreshNeeded, ctor, savedFor,
                   threadVars>>

SetEnabledDefault(v) ==
    /\ settings' = [settings EXCEPT !.enabledDefault = v]
    /\ setterThrew' = FALSE
    /\ UNCHANGED settingsFrame

SetFilterButtonVisible(v) ==
    /\ settings' = [settings EXCEPT !.showFilterButton = v]
    /\ setterThrew' = FALSE
    /\ UNCHANGED settingsFrame

SetLanguageFilterEnabled(v) ==
    /\ settings' = [settings EXCEPT !.filterByLanguage = v]
    /\ setterThrew' = FALSE
    /\ UNCHANGED settingsFrame

SetLanguageBlockList(v) ==
    /\ settings' = [settings EXCEPT !.blockSelectedLanguages = v]
    /\ setterThrew' = FALSE
    /\ UNCHANGED settingsFrame

SetSelectedLanguage(language, value) ==
    /\ settings' = setSelectedLanguage(settings, language, value)
    /\ setterThrew' = setSelectedLanguageThrows(settings, language)
    /\ UNCHANGED settingsFrame

SetSelectUnknown(v) ==
    /\ settings' = [settings EXCEPT !.selectUnknownLanguage = v]
    /\ setterThrew' = FALSE
    /\ UNCHANGED settingsFrame

AddListedLanguage(language, include) ==
    /\ settings' = addListedLanguage(settings, language, include)
    /\ setterThrew' = FALSE
    /\ UNCHANGED settingsFrame

RemoveListedLanguage(language) ==
    /\ settings' = removeListedLanguage(settings, language)
    /\ setterThrew' = FALSE
    /\ UNCHANGED settingsFrame

SetPercentageThreshold(value) ==
    /\ settings' = setPercentageThreshold(settings, value)
    /\ setterThrew' = FALSE
    /\ UNCHANGED settingsFrame

SetWordFilterEnabled(v) ==
    /\ settings' = [settings EXCEPT !.filterByWord = v]
    /\ setterThrew' = FALSE
    /\ UNCHANGED settingsFrame

SetBlockedWords(words) ==
    /\ settings' = setBlockedWords(settings, words)
    /\ setterThrew' = setBlockedWordsThrows(settings, words)
    /\ UNCHANGED settingsFrame

SetRegularExpression(v) ==
    /\ settings' = setRegularExpression(settings, v)
    /\ setterThrew' = setRegularExpressionThrows(settings, v)
    /\ UNCHANGED settingsFrame

SetFilterReplies(v) ==
    /\ settings' = [settings EXCEPT !.filterReplies = v]
    /\ setterThrew' = FALSE
    /\ UNCHANGED settingsFrame

\* saveToStorage() and then loadFromStorage() in another script
Reload ==
    /\ ~loadFromJSONThrows(toJSON(settings))
    /\ settings' = loadFromJSON(toJSON(settings))
    /\ setterThrew' = FALSE
    /\ UNCHANGED settingsFrame

NextSettings ==
    \/ \E v \in BOOLEAN : SetEnabledDefault(v)
    \/ \E v \in BOOLEAN : SetFilterButtonVisible(v)
    \/ \E v \in BOOLEAN : SetLanguageFilterEnabled(v)
    \/ \E v \in BOOLEAN : SetLanguageBlockList(v)
    \/ \E l \in Languages : \E v \in BOOLEAN : SetSelectedLanguage(l, v)
    \/ \E v \in BOOLEAN : SetSelectUnknown(v)
    \/ \E l \in Languages : \E v \in BOOLEAN : AddListedLanguage(l, v)
    \/ \E l \in Languages : RemoveListedLanguage(l)
    \/ \E v \in Thresholds : SetPercentageThreshold(v)
    \/ \E v \in BOOLEAN : SetWordFilterEnabled(v)
    \/ \E ws \in WordLists : SetBlockedWords(ws)
    \/ \E v \in BOOLEAN : SetRegularExpression(v)
    \/ \E v \in BOOLEAN : SetFilterReplies(v)
    \/ Reload

SpecSettings == InitSettings /\ [][NextSettings]_vars

\* ------------------------------------------------------------------------
\*  Settings: the comparison of two settings
\* ------------------------------------------------------------------------

\* new Settings(false, true, true, false, ['en'], false, ['en', 'ja'], 20, true, [])
DiffBase ==
    [enabledDefault |-> Some(FALSE), showFilterButton |-> Some(TRUE),
     filterByLanguage |-> Some(TRUE), blockSelectedLanguages |-> Some(FALSE),
     selectedLanguages |-> Some(<<LangEn>>), selectUnknownLanguage |-> Some(FALSE),
     listedLanguages |-> Some(<<LangEn, LangJa>>), percentageThreshold |-> Some(20),
     filterByWord |-> Some(TRUE), excludeWords |-> Some(<<>>),
     regularExpressionEnabled |-> Undefined, filterReplies |-> Undefined]

\* the words "bb" and "a."
WordBb == <<98, 98>>
WordDot == <<97, 46>>

\* the settings that are compared: the base, the ones that differ from it
\* in one argument, and two with regular expressions for the same words
DiffPool ==
    {Settings(a, <<>>) : a \in
        {DiffBase,
         [DiffBase EXCEPT !.enabledDefault = Some(TRUE)],
         [DiffBase EXCEPT !.showFilterButton = Some(FALSE)],
         [DiffBase EXCEPT !.filterByLanguage = Some(FALSE)],
         [DiffBase EXCEPT !.blockSelectedLanguages = Some(TRUE)],
         [DiffBase EXCEPT !.selectedLanguages = Some(<<LangEn, LangJa>>)],
         [DiffBase EXCEPT !.selectedLanguages = Some(<<LangJa, LangEn>>)],
         [DiffBase EXCEPT !.selectUnknownLanguage = Some(TRUE)],
         [DiffBase EXCEPT !.listedLanguages = Some(<<LangJa, LangEn>>)],
         [DiffBase EXCEPT !.percentageThreshold = Some(21)],
         [DiffBase EXCEPT !.filterByWord = Some(FALSE)],
         [DiffBase EXCEPT !.excludeWords = Some(<<WordBb, WordDot>>)],
         [DiffBase EXCEPT !.excludeWords = Some(<<WordDot, WordBb>>)],
         [DiffBase EXCEPT !.excludeWords = Some(<<WordBb, WordDot, WordBb>>)],
         [DiffBase EXCEPT !.regularExpressionEnabled = Some(TRUE)],
         [DiffBase EXCEPT !.regularExpressionEnabled = Some(TRUE),
                          !.excludeWords = Some(<<WordBb, WordDot>>)],
         [DiffBase EXCEPT !.regularExpressionEnabled = Some(TRUE),
                          !.excludeWords = Some(<<WordDot, WordBb, WordDot>>)],
         [DiffBase EXCEPT !.filterReplies = Some(TRUE)]}}

\* the new settings and the old ones, not yet compared; the buffer, the
\* detector and the comment idle
InitDiff ==
    /\ xs = CircularBuffer(1)
    /\ xsFifo = <<>>
    /\ xsLast = NoCall
    /\ xsOverflow = FALSE
    /\ maxCacheSize = 1
    /\ cache = <<>>
    /\ entries = CircularBuffer(maxCacheSize)
    /\ inflight = <<>>
    /\ run = [ok |-> TRUE, keys |-> <<>>]
    /\ lastCall = [kind |-> "none", text |-> <<>>, result |-> Null]
    /\ pushThrew = FALSE
    /\ age = 0
    /\ text = <<>>
    /\ detectedLanguage = Null
    /\ waited = FALSE
    /\ display = ""
    /\ isReply = FALSE
    /\ domText = <<>>
    /\ enabled = TRUE
    /\ settings \in DiffPool
    /\ pipes = <<>>
    /\ settleDelays = 0
    /\ setterThrew = FALSE
    /\ oldSettings \in DiffPool
    /\ refreshNeeded = Null
    /\ ctor = Null
    /\ savedFor = Undefined
    /\ thread = Null
    /\ app = Null

\* settings.shouldRefreshFilter(oldSettings)
ShouldRefreshFilter ==
    /\ refreshNeeded = Null
    /\ refreshNeeded' = [null |-> FALSE,
                         value |-> shouldRefreshFilter(settings, oldSettings)]
    /\ UNCHANGED <<bufVars, detVars, itemVars, setterThrew, oldSettings, ctor, savedFor,
                 threadVars>>

NextDiff == ShouldRefreshFilter

SpecDiff == InitDiff /\ [][NextDiff]_vars

\* ------------------------------------------------------------------------
\*  ThreadManager: one thread, its main comment and its replies
\* ------------------------------------------------------------------------
\* The comments of the thread are the records of thread.comments, the main
\* comment first: the element (0 for the thread element of the main comment,
\* else the reply anchor) and the age.  thread.style holds style.display of
\* every element, thread.enabled is context.enabled.  A refreshAll or refreshFilter call on a comment
\* is a record of thread.items: between its first step and applyFilter the
\* call is "run", then "delay" or "done" as in applyFilter.  What shouldFilter
\* answers and whether the comment waited are inputs of the steps.  A call
\* on the ThreadManager is a record of thread.calls: the item of the main
\* comment it waits for (pc = "main"), then the items of Promise.all
\* (pc = "replies"), and whether refreshStatusFunc was called.  When the
\* promise a handler waits for settles, the handler joins thread.jobs; the
\* jobs run in that order, before any timer, answer, notification or call.

\* number of reply anchors of the page
NumAnchors == 2

\* largest number of refreshMain and refreshFilter calls on the thread
MaxCalls == 2

\* largest number of CommentInfo objects created for replies
MaxReplies == 2

\* the reply elements; node 0 of a mutation record is not a comment
Anchors == 1..NumAnchors

\* new CommentInfo(context, elem, isReply)
CommentInfo(elem) == [elem |-> elem, age |-> 0]

\* new ThreadManager(context, elem, refreshStatus) on a page with the reply
\* container present or not and the reply elements anchors
ThreadManager(container, anchors) ==
    [comments |-> <<CommentInfo(0)>>, replies |-> <<>>, observing |-> FALSE,
     live |-> TRUE, container |-> container, anchors |-> anchors,
     style |-> [e \in 0..NumAnchors |-> ""], enabled |-> TRUE,
     items |-> <<>>, calls |-> <<>>, jobs |-> <<>>]

\* c.refreshAll() up to the promise it returns
refreshAll(t, c) ==
    LET a == t.comments[c].age
    IN  IF isDestroyed(a)
        THEN [t EXCEPT !.items = Append(@, [comment |-> c, kind |-> "all", ticket |-> a,
                                            pc |-> "done", outcome |-> "false"])]
        ELSE [t EXCEPT !.comments[c].age = incrementAge(a),
                       !.items = Append(@, [comment |-> c, kind |-> "all",
                                            ticket |-> incrementAge(a),
                                            pc |-> "run", outcome |-> "pending"])]

\* c.refreshFilter() up to the promise it returns
refreshFilter(t, c, sf, w) ==
    LET cm == t.comments[c]
        a == applyFilter(t.style[cm.elem], w, sf)
    IN  IF isDestroyed(cm.age)
        THEN [t EXCEPT !.items = Append(@, [comment |-> c, kind |-> "filter",
                                            ticket |-> cm.age,
                                            pc |-> "done", outcome |-> "false"])]
        ELSE [t EXCEPT !.style[cm.elem] = a.display,
                       !.items = Append(@, [comment |-> c, kind |-> "filter",
                                            ticket |-> cm.age,
                                            pc |-> a.pc, outcome |-> a.outcome])]

\* c.destroy()
destroy(t, c) == [t EXCEPT !.comments[c].age = -1]

\* [...this.replies.values()].forEach((r) => r.destroy())
RECURSIVE destroyAll(_, _)
destroyAll(t, m) ==
    IF m = <<>> THEN t ELSE destroyAll(destroy(t, Head(m).value), Tail(m))

\* a new reply CommentInfo for elem, stored in the map, with refreshAll called
newReply(t, elem) ==
    LET c == Len(t.comments) + 1
    IN  [refreshAll([t EXCEPT !.comments = Append(@, CommentInfo(elem))], c)
            EXCEPT !.replies = MapSet(@, elem, c)]

\* DomManager.findReplyElements(this.elem), in document order
RECURSIVE findReplyElements(_)
findReplyElements(anchors) ==
    IF anchors = {} THEN <<>>
    ELSE LET e == CHOOSE x \in anchors : \A y \in anchors : x <= y
         IN  <<e>> \o findReplyElements(anchors \ {e})

\* the loop of refreshMain over the reply elements
RECURSIVE createReplies(_, _)
createReplies(t, elems) ==
    IF elems = <<>> THEN t ELSE createReplies(newReply(t, Head(elems)), Tail(elems))

\* a loop over mutation.removedNodes that forgets the CommentInfo of a
\* removed reply without destroying it
RECURSIVE removeRepliesNoDestroy(_, _)
removeRepliesNoDestroy(t, nodes) ==
    IF nodes = <<>> THEN t
    ELSE LET e == Head(nodes)
         IN  removeRepliesNoDestroy(IF e \in Anchors /\ MapHas(t.replies, e)
                                    THEN [t EXCEPT !.replies = MapDelete(@, e)]
                                    ELSE t,
                                    Tail(nodes))

\* the loop of handleReplyUpdate over mutation.removedNodes
RECURSIVE removeReplies(_, _)
removeReplies(t, nodes) ==
    IF nodes = <<>> THEN t
    ELSE LET e == Head(nodes)
         IN  removeReplies(IF e \in Anchors /\ MapHas(t.replies, e)
                           THEN [destroy(t, MapGet(t.replies, e))
                                    EXCEPT !.replies = MapDelete(@, e)]
                           ELSE t,
                           Tail(nodes))

\* a loop over mutation.addedNodes that gives every comment a new CommentInfo
RECURSIVE addRepliesAlways(_, _)
addRepliesAlways(t, nodes) ==
    IF nodes = <<>> THEN t
    ELSE LET e == Head(nodes)
         IN  addRepliesAlways(IF e \in Anchors THEN newReply(t, e) ELSE t, Tail(nodes))

\* the loop of handleReplyUpdate over mutation.addedNodes
RECURSIVE addReplies(_, _)
addReplies(t, nodes) ==
    IF nodes = <<>> THEN t
    ELSE LET e == Head(nodes)
         IN  addReplies(IF e \in Anchors /\ ~MapHas(t.replies, e)
                        THEN newReply(t, e)
                        ELSE t,
                        Tail(nodes))

\* handleReplyUpdate(mutations, observer)
RECURSIVE handleReplyUpdate(_, _)
handleReplyUpdate(t, mutations) ==
    IF mutations = <<>> THEN t
    ELSE LET m == Head(mutations)
         IN  handleReplyUpdate(
                 IF m.type # "childList" THEN t
                 ELSE addReplies(removeReplies(t, m.removedNodes), m.addedNodes),
                 Tail(mutations))

\* [...this.replies.values()].map((r) => r.refreshFilter())
RECURSIVE refreshFilterAll(_, _, _, _)
refreshFilterAll(t, m, sf, w) ==
    IF m = <<>> THEN t
    ELSE refreshFilterAll(refreshFilter(t, Head(m).value, sf[Head(m).key], w[Head(m).key]),
                          Tail(m), sf, w)

\* the mutation records the reply observer delivers
ChildList(removed, added) ==
    [type |-> "childList", removedNodes |-> removed, addedNodes |-> added]

Mutations ==
    {<<ChildList(<<>>, <<e>>)>> : e \in Anchors}
    \cup {<<ChildList(<<e>>, <<>>)>> : e \in Anchors}
    \cup {<<ChildList(<<1>>, <<0, 2>>)>>,
          <<ChildList(<<>>, <<1>>), ChildList(<<1>>, <<2>>)>>,
          <<[type |-> "attributes", removedNodes |-> <<>>, addedNodes |-> <<>>],
            ChildList(<<0>>, <<1, 2>>)>>}

\* a ThreadManager just constructed; the rest idle
InitThread ==
    /\ xs = CircularBuffer(1)
    /\ xsFifo = <<>>
    /\ xsLast = NoCall
    /\ xsOverflow = FALSE
    /\ maxCacheSize = 1
    /\ cache = <<>>
    /\ entries = CircularBuffer(maxCacheSize)
    /\ inflight = <<>>
    /\ run = [ok |-> TRUE, keys |-> <<>>]
    /\ lastCall = [kind |-> "none", text |-> <<>>, result |-> Null]
    /\ pushThrew = FALSE
    /\ age = 0
    /\ text = <<>>
    /\ detectedLanguage = Null
    /\ waited = FALSE
    /\ display = ""
    /\ isReply = FALSE
    /\ domText = <<>>
    /\ enabled = TRUE
    /\ settings = Null
    /\ pipes = <<>>
    /\ settleDelays = 0
    /\ setterThrew = FALSE
    /\ oldSettings = Null
    /\ refreshNeeded = Null
    /\ ctor = Null
    /\ savedFor = Undefined
    /\ thread \in {ThreadManager(FALSE, {}), ThreadManager(TRUE, {}),
                   ThreadManager(TRUE, Anchors)}
    /\ app = Null

\* a settled promise that no handler of the ThreadManager waits for
Forgotten == [comment |-> 1, kind |-> "", ticket |-> 0, pc |-> "done", outcome |-> ""]

\* the calls on comments that settled and that no handler waits for are
\* forgotten
forget(t) ==
    [t EXCEPT !.items =
        [i \in 1..Len(t.items) |->
            IF t.items[i].pc = "done"
               /\ ~\E c \in 1..Len(t.calls) :
                      \/ t.calls[c].pc = "main" /\ t.calls[c].item = i
                      \/ t.calls[c].pc = "replies" /\ i \in t.calls[c].ps
            THEN Forgotten ELSE t.items[i]]]

\* the promise that the next handler of call c waits for has settled:
\* the call on the main comment, or Promise.all of the calls on the replies
\* (rejected with the first rejection, resolved when all are resolved)
settled(t, c) ==
    \/ t.calls[c].pc = "main" /\ t.items[t.calls[c].item].pc = "done"
    \/ /\ t.calls[c].pc = "replies"
       /\ \/ \E i \in t.calls[c].ps : t.items[i].outcome = "error"
          \/ \A i \in t.calls[c].ps : t.items[i].pc = "done"

\* the handlers of the promises that settled join the queue of jobs, behind
\* those that wait there
RECURSIVE queue(_, _)
queue(t, c) ==
    IF c > Len(t.calls) THEN t
    ELSE queue(IF settled(t, c) /\ ~\E k \in 1..Len(t.jobs) : t.jobs[k] = c
               THEN [t EXCEPT !.jobs = Append(@, c)]
               ELSE t,
               c + 1)

\* the thread once a step is done
after(t) == forget(queue(t, 1))

\* the jobs queued are run before anything else happens
Idle == thread.jobs = <<>>

Items == 1..Len(thread.items)
Calls == 1..Len(thread.calls)

\* a step of refreshAll finds its ticket outdated: the call resolves false
ItemOutdated(i) ==
    LET it == thread.items[i]
    IN  /\ Idle
        /\ it.pc = "run"
        /\ ~verifyAge(it.ticket, thread.comments[it.comment].age)
        /\ thread' = after([thread EXCEPT !.items[i].pc = "done",
                                          !.items[i].outcome = catchOutdated("outdated")])

\* a step of refreshAll before applyFilter throws another error
ItemThrows(i) ==
    LET it == thread.items[i]
    IN  /\ Idle
        /\ it.pc = "run"
        /\ verifyAge(it.ticket, thread.comments[it.comment].age)
        /\ thread' = after([thread EXCEPT !.items[i].pc = "done",
                                          !.items[i].outcome = catchOutdated("sendMessage")])

\* the applyFilter step of refreshAll
ItemApplyFilter(i, sf, w) ==
    LET it == thread.items[i]
        elem == thread.comments[it.comment].elem
        a == applyFilter(thread.style[elem], w, sf)
    IN  /\ Idle
        /\ sf => thread.enabled
        /\ it.pc = "run"
        /\ verifyAge(it.ticket, thread.comments[it.comment].age)
        /\ thread' = after([thread EXCEPT !.style[elem] = a.display,
                                          !.items[i].pc = a.pc,
                                          !.items[i].outcome = a.outcome])

\* the timer of applyFilter fires
ItemDelayElapsed(i) ==
    LET it == thread.items[i]
    IN  /\ Idle
        /\ it.pc = "delay"
        /\ thread' = after([thread EXCEPT !.style[thread.comments[it.comment].elem] = "none",
                                          !.items[i].pc = "done",
                                          !.items[i].outcome = "true"])

\* refreshMain() up to the promise it returns
RefreshMain ==
    /\ Idle
    /\ thread.live
    /\ Len(thread.calls) < MaxCalls
    /\ thread' = LET t == refreshAll(thread, 1)
                 IN  after([t EXCEPT !.calls = Append(@, [kind |-> "main", pc |-> "main",
                                                          item |-> Len(t.items),
                                                          ps |-> {}, status |-> FALSE])])

\* the job at the head of the queue is a handler of call c
NextJob(c) == thread.jobs # <<>> /\ Head(thread.jobs) = c

\* the first handler of refreshMain, once mainComment.refreshAll() settled
ThenMain(c) ==
    LET call == thread.calls[c]
        it == thread.items[call.item]
        t == [thread EXCEPT !.jobs = Tail(@)]
        reset == [destroyAll(t, t.replies) EXCEPT !.observing = FALSE, !.replies = <<>>]
        made == createReplies([reset EXCEPT !.observing = TRUE],
                              findReplyElements(t.anchors))
    IN  /\ NextJob(c)
        /\ call.kind = "main" /\ call.pc = "main"
        /\ IF it.outcome = "error"
           THEN thread' = after([t EXCEPT !.calls[c].pc = "done"])
           ELSE IF ~t.container
           THEN thread' = after([reset EXCEPT !.calls[c].pc = "replies"])
           ELSE IF it.outcome = "false"
           THEN /\ Len(t.comments) + Cardinality(t.anchors) <= 1 + MaxReplies
                /\ thread' = after([made EXCEPT !.calls[c].pc = "replies",
                                                !.calls[c].ps = Len(reset.items) + 1
                                                                ..Len(made.items)])
           ELSE thread' = after([reset EXCEPT !.observing = TRUE,
                                              !.calls[c].pc = "replies"])

\* the last handler of refreshMain and refreshFilter, once Promise.all
\* settled: refreshStatusFunc(), or nothing when an item rejected
ThenStatus(c) ==
    LET call == thread.calls[c]
        t == [thread EXCEPT !.jobs = Tail(@)]
    IN  /\ NextJob(c)
        /\ call.pc = "replies"
        /\ IF \E i \in call.ps : t.items[i].outcome = "error"
           THEN thread' = after([t EXCEPT !.calls[c].pc = "done"])
           ELSE thread' = after([t EXCEPT !.calls[c].pc = "done",
                                          !.calls[c].status = TRUE])

\* refreshFilter() up to the promise it returns
ThreadRefreshFilter(sf, w) ==
    /\ Idle
    /\ thread.live
    /\ sf => thread.enabled
    /\ Len(thread.calls) < MaxCalls
    /\ thread' = LET t == refreshFilter(thread, 1, sf, w)
                 IN  after([t EXCEPT !.calls = Append(@, [kind |-> "filter", pc |-> "main",
                                                          item |-> Len(t.items),
                                                          ps |-> {}, status |-> FALSE])])

\* a first handler of refreshFilter that does not look at the result
ThenFilterAlways(c, sf, w) ==
    LET call == thread.calls[c]
        t == [thread EXCEPT !.jobs = Tail(@)]
        u == refreshFilterAll(t, t.replies, sf, w)
    IN  /\ NextJob(c)
        /\ call.kind = "filter" /\ call.pc = "main"
        /\ \A e \in Anchors : sf[e] => thread.enabled
        /\ thread' = after([u EXCEPT !.calls[c].pc = "replies",
                                     !.calls[c].ps = Len(t.items) + 1..Len(u.items)])

\* the first handler of refreshFilter, once mainComment.refreshFilter() resolved
ThenFilter(c, sf, w) ==
    LET call == thread.calls[c]
        it == thread.items[call.item]
        t == [thread EXCEPT !.jobs = Tail(@)]
        u == refreshFilterAll(t, t.replies, sf, w)
    IN  /\ NextJob(c)
        /\ call.kind = "filter" /\ call.pc = "main"
        /\ \A e \in Anchors : sf[e] => thread.enabled
        /\ IF it.outcome = "true"
           THEN thread' = after([t EXCEPT !.calls[c].pc = "replies"])
           ELSE thread' = after([u EXCEPT !.calls[c].pc = "replies",
                                          !.calls[c].ps = Len(t.items) + 1..Len(u.items)])

\* App.toggleEnabled() with the app ready: context.enabled is switched, and
\* refreshFilter() is called on the thread manager unless the thread was
\* removed, and with it its manager from the map of the app
ThreadToggleEnabled(sf, w) ==
    LET on == [thread EXCEPT !.enabled = ~@]
        t == refreshFilter(on, 1, sf, w)
    IN  /\ Idle
        /\ sf => on.enabled
        /\ IF ~thread.live THEN thread' = after(on)
           ELSE /\ Len(thread.calls) < MaxCalls
                /\ thread' = after([t EXCEPT !.calls =
                                      Append(@, [kind |-> "filter", pc |-> "main",
                                                 item |-> Len(t.items),
                                                 ps |-> {}, status |-> FALSE])])

\* the reply observer delivers mutation records
HandleReplyUpdate(mutations) ==
    LET t == handleReplyUpdate(thread, mutations)
    IN  /\ Idle
        /\ thread.observing
        /\ Len(t.comments) <= 1 + MaxReplies
        /\ thread' = after(t)

\* a destroy() that leaves the replies alone
ThreadDestroyMainOnly ==
    /\ Idle
    /\ thread.live
    /\ thread' = after([destroy(thread, 1) EXCEPT !.observing = FALSE, !.live = FALSE])

\* destroy()
ThreadDestroy ==
    /\ Idle
    /\ thread.live
    /\ thread' = after([destroyAll(destroy(thread, 1), thread.replies)
                           EXCEPT !.observing = FALSE, !.live = FALSE])

\* the page shows or removes the reply container and reply elements
PageChanges(container, anchors) ==
    /\ Idle
    /\ thread.container # container \/ thread.anchors # anchors
    /\ thread' = [thread EXCEPT !.container = container, !.anchors = anchors]

threadFrame == <<bufVars, detVars, itemVars, setVars, app>>

NextThread ==
    \/ RefreshMain /\ UNCHANGED threadFrame
    \/ \E c \in Calls : ThenMain(c) /\ UNCHANGED threadFrame
    \/ \E c \in Calls : ThenStatus(c) /\ UNCHANGED threadFrame
    \/ \E sf, w \in BOOLEAN : ThreadRefreshFilter(sf, w) /\ UNCHANGED threadFrame
    \/ \E sf, w \in BOOLEAN : ThreadToggleEnabled(sf, w) /\ UNCHANGED threadFrame
    \/ \E c \in Calls : \E sf, w \in [Anchors -> BOOLEAN] :
            ThenFilter(c, sf, w) /\ UNCHANGED threadFrame
    \/ \E ms \in Mutations : HandleReplyUpdate(ms) /\ UNCHANGED threadFrame
    \/ ThreadDestroy /\ UNCHANGED threadFrame
    \/ \E a \in {{}, Anchors} : PageChanges(a # {}, a) /\ UNCHANGED threadFrame
    \/ \E i \in Items : ItemOutdated(i) /\ UNCHANGED threadFrame
    \/ \E i \in Items : ItemThrows(i) /\ UNCHANGED threadFrame
    \/ \E i \in Items : \E sf, w \in BOOLEAN :
            ItemApplyFilter(i, sf, w) /\ UNCHANGED threadFrame
    \/ \E i \in Items : ItemDelayElapsed(i) /\ UNCHANGED threadFrame

SpecThread == InitThread /\ [][NextThread]_vars

\* ------------------------------------------------------------------------
\*  Claims about the CircularBuffer (SpecBuffer)
\* ------------------------------------------------------------------------

\* C9: as long as push was never called on the full buffer, size() is the
\* number of elements pushed since the last clear and not yet popped, and
\* every pop returns the oldest of them, or undefined when there is none.
C9_BoundedFifo ==
    ~xsOverflow =>
        /\ size(xs) = Len(xsFifo)
        /\ (xsLast.op = "pop" => xsLast.ret = xsLast.expected)

\* C10: a push on a buffer that holds capacity elements throws and leaves
\* the buffer as it was: size() is still the capacity and the following
\* pops return the same elements in the same order.
C10_FullPushThrowsUnchanged ==
    [][(xsLast'.op = "push" /\ size(xs) = xs.capacity) =>
            /\ xsLast'.threw
            /\ size(xs') = xs.capacity
            /\ Drain(xs') = Drain(xs)]_vars

\* a push that threw on a full buffer whose oldest element is not in slot 0
C10_Witness ==
    /\ xsLast.op = "push"
    /\ xsLast.threw
    /\ xs.capacity >= 2
    /\ size(xs) = xs.capacity
    /\ xs.index > 0

\* ------------------------------------------------------------------------
\*  Claims about the LanguageDetector cache (SpecCache, SpecCacheNoClear)
\* ------------------------------------------------------------------------

\* C6: on a new detector of capacity N >= 1 that was never cleared, once
\* N+1 texts with distinct fingerprints were classified one after the other,
\* the first-inserted fingerprint is absent and the other N are present.
C6_FirstInsertedEvicted ==
    (run.ok /\ Len(run.keys) = maxCacheSize + 1) =>
        /\ ~MapHas(cache, run.keys[1])
        /\ \A j \in 2..Len(run.keys) : MapHas(cache, run.keys[j])

\* N+1 sequential insertions into a cache of the largest capacity
C6_Witness ==
    /\ run.ok
    /\ maxCacheSize = MaxCacheSize
    /\ Len(run.keys) = maxCacheSize + 1
    /\ inflight = <<>>

\* the key the next eviction pops is the oldest-inserted key of the map
NextEvictedIsOldest ==
    size(entries) > 0 => (cache # <<>> /\ popReturn(entries).val = cache[1].key)

\* C7: a cache hit changes neither the eviction queue nor the map, and the
\* next entry to be evicted is always the oldest-inserted one still present.
C7_FifoEviction ==
    /\ [][(lastCall'.kind = "hit" /\ lastCall' # lastCall) =>
            (cache' = cache /\ entries' = entries)]_vars
    /\ []NextEvictedIsOldest

\* C8: the cache map never holds more than maxCacheSize entries.
C8_CacheBounded == Len(cache) <= maxCacheSize

\* ------------------------------------------------------------------------
\*  Claims about CommentInfo (SpecItem)
\* ------------------------------------------------------------------------

\* a refreshAll that minted its ticket after call p
Superseded(p) ==
    \E q \in Pipes : q > p /\ pipes[q].kind = "all" /\ pipes[q].minted

\* C1: once a newer refreshAll has begun, no step of an earlier refreshAll
\* changes the display of the comment element.
C1_SupersededHasNoEffect ==
    [][\A p \in Pipes :
          (pipes[p].kind = "all" /\ Superseded(p) /\ pipes'[p] # pipes[p])
              => display' = display]_vars

\* C2: after destroy() nothing changes the display of the comment element.
C2_DestroyedHasNoEffect ==
    [][age = -1 => display' = display]_vars

\* C3: detectedLanguage is written only by a refreshAll whose ticket is the
\* current age, which is the most recently begun one: the saveLanguage of an
\* earlier refreshAll never stores its result.
C3_OnlyCurrentTicketSaves ==
    [][/\ detectedLanguage' # detectedLanguage =>
              \E p \in Pipes : /\ pipes'[p] # pipes[p]
                               /\ pipes[p].kind = "all"
                               /\ pipes[p].ticket = age
                               /\ ~Superseded(p)
       /\ \A p \in Pipes :
              (pipes[p].pc = "save" /\ pipes'[p].pc = "apply")
                  => (pipes[p].ticket = age /\ ~Superseded(p))]_vars

\* the saveLanguage of an earlier refreshAll threw while a later one stored
\* its result
C3_Witness ==
    \E p, q \in Pipes :
        /\ p < q
        /\ pipes[p].threwAt = "save" /\ pipes[p].stale
        /\ pipes[q].kind = "all" /\ pipes[q].pc \in {"apply", "delay", "done"}
        /\ pipes[q].threwAt = ""
        /\ detectedLanguage # Null

\* C4: a refreshAll of which a verifyAge threw resolves to false, and one
\* of which another error was thrown rejects with that error.
C4_OutdatedResolvesFalse ==
    \A p \in Pipes :
        pipes[p].kind = "all" =>
            /\ pipes[p].stale => (pipes[p].pc = "done" /\ pipes[p].outcome = "false")
            /\ (pipes[p].threwAt # "" /\ ~pipes[p].stale) => pipes[p].outcome = "error"
            /\ pipes[p].outcome = "error" => ~pipes[p].stale

\* one refreshAll was outdated and resolved to false, another rejected with
\* the error of sendMessage
C4_Witness ==
    \E p, q \in Pipes :
        /\ pipes[p].kind = "all" /\ pipes[p].stale /\ pipes[p].outcome = "false"
        /\ pipes[q].kind = "all" /\ pipes[q].outcome = "error"

\* C5: once the age is -1 it stays -1, and a refreshAll or refreshFilter
\* called then resolves to false at once and leaves the text, the result,
\* the display, the cache and the messages to the background script alone.
C5_DestroyedIsAbsorbing ==
    [][age = -1 =>
          /\ age' = -1
          /\ Len(pipes') > Len(pipes) =>
                /\ pipes'[Len(pipes')].pc = "done"
                /\ pipes'[Len(pipes')].outcome = "false"
                /\ UNCHANGED <<text, detectedLanguage, waited, display, cache,
                               entries, inflight>>]_vars

\* a refreshAll and a refreshFilter were called on the destroyed comment
C5_Witness ==
    /\ age = -1
    /\ \E p, q \in Pipes :
          /\ pipes[p].kind = "all" /\ pipes[p].ticket = -1
          /\ pipes[q].kind = "filter" /\ pipes[q].ticket = -1

\* ------------------------------------------------------------------------
\*  Settings: serialization
\* ------------------------------------------------------------------------

\* two Settings are equal field by field: the selection as a set, the
\* listed languages and the blocked words as sequences
SameFields(a, b) ==
    /\ a.enabledDefault = b.enabledDefault
    /\ a.showFilterButton = b.showFilterButton
    /\ a.filterByLanguage = b.filterByLanguage
    /\ a.blockSelectedLanguages = b.blockSelectedLanguages
    /\ {a.selectedLanguages[i] : i \in 1..Len(a.selectedLanguages)}
         = {b.selectedLanguages[i] : i \in 1..Len(b.selectedLanguages)}
    /\ a.selectUnknownLanguage = b.selectUnknownLanguage
    /\ a.listedLanguages = b.listedLanguages
    /\ a.percentageThreshold = b.percentageThreshold
    /\ a.filterByWord = b.filterByWord
    /\ a.blockedWords = b.blockedWords
    /\ a.regularExpressionEnabled = b.regularExpressionEnabled
    /\ a.filterReplies = b.filterReplies

\* C11: for every Settings reached from the constructor by setter calls,
\* loadFromJSON(toJSON()) returns a Settings that equals it field by field.
C11_RoundTrip ==
    /\ ~loadFromJSONThrows(toJSON(settings))
    /\ SameFields(loadFromJSON(toJSON(settings)), settings)

\* ------------------------------------------------------------------------
\*  Settings: invariants of the fields
\* ------------------------------------------------------------------------

\* the elements of an array or of a Set
Elems(q) == {q[i] : i \in 1..Len(q)}

\* C12: every selected language is listed, and no language is listed twice.
C12_SelectedAreListed ==
    /\ Elems(settings.selectedLanguages) \subseteq Elems(settings.listedLanguages)
    /\ \A i, j \in 1..Len(settings.listedLanguages) :
           i # j => settings.listedLanguages[i] # settings.listedLanguages[j]

\* two languages are listed and the second is the selected one, which only
\* setter calls bring about
C12_Witness ==
    /\ settings.listedLanguages = <<LangJa, LangEn>>
    /\ settings.selectedLanguages = <<LangEn>>

\* C13: the percentage threshold of every Settings lies between 0 and 100.
C13_ThresholdInRange ==
    settings.percentageThreshold >= 0 /\ settings.percentageThreshold <= 100

\* the fields of a Settings other than selectedLanguages
OtherFields(s) == [s EXCEPT !.selectedLanguages = <<>>]

\* C14: setSelectedLanguage(l, v) throws for an unlisted l and then changes
\* neither the selection nor the list; for a listed l it does not throw, adds
\* l to the selection (v true) or removes it (v false) and changes nothing else.
C14_SetSelectedLanguage ==
    [][\A l \in Languages : \A v \in BOOLEAN :
          SetSelectedLanguage(l, v) =>
              IF l \notin Elems(settings.listedLanguages)
              THEN /\ setterThrew'
                   /\ settings'.selectedLanguages = settings.selectedLanguages
                   /\ settings'.listedLanguages = settings.listedLanguages
              ELSE /\ ~setterThrew'
                   /\ Elems(settings'.selectedLanguages) =
                          IF v THEN Elems(settings.selectedLanguages) \cup {l}
                          ELSE Elems(settings.selectedLanguages) \ {l}
                   /\ OtherFields(settings') = OtherFields(settings)]_vars

\* a setter threw while regular expressions are off, which only
\* setSelectedLanguage does, and a language is selected
C14_Witness ==
    /\ setterThrew
    /\ ~settings.regularExpressionEnabled
    /\ settings.selectedLanguages # <<>>
    /\ Elems(settings.listedLanguages) # Languages

\* ------------------------------------------------------------------------
\*  Settings: the filter decision
\* ------------------------------------------------------------------------

\* the classification results the decision is asked about: no language,
\* "und" at 100, en 49 / de 49 / ja 2, en-US 50 / de 48 / ja 2, ja 95
LangDe == <<100, 101>>
ResultNone == [isReliable |-> FALSE, languages |-> <<>>]
ResultUnd == [isReliable |-> FALSE,
              languages |-> <<[language |-> LangUnd, percentage |-> 100]>>]
ResultBelow == [isReliable |-> FALSE,
                languages |-> <<[language |-> LangEn, percentage |-> 49],
                                [language |-> LangDe, percentage |-> 49],
                                [language |-> LangJa, percentage |-> 2]>>]
ResultEnUS == [isReliable |-> FALSE,
               languages |-> <<[language |-> LangEnUS, percentage |-> 50],
                               [language |-> LangDe, percentage |-> 48],
                               [language |-> LangJa, percentage |-> 2]>>]
DecisionResults == {ResultNone, ResultUnd, ResultBelow, ResultEnUS, ResultJa}

\* the entries of r at or above the threshold of st
Surviving(st, r) ==
    {e \in Elems(r.languages) : e.percentage >= st.percentageThreshold}

\* a language code without its region suffix: the two letters before the '-'
WithoutRegion(code) ==
    IF \E k \in 1..Len(code) : code[k] = Hyphen /\ k = 3
    THEN <<code[1], code[2]>>
    ELSE code

\* the item is matched by the language settings
Matched(st, r) ==
    \/ Surviving(st, r) = {} /\ st.selectUnknownLanguage
    \/ \E e \in Surviving(st, r) :
           \/ WithoutRegion(e.language) \in Elems(st.selectedLanguages)
           \/ e.language = LangUnd /\ st.selectUnknownLanguage

\* C15: shouldFilterByLanguage is false while language filtering is off;
\* otherwise allow-mode hides the item that is not matched and block-mode
\* hides the item that is matched.
C15_LanguageDecision ==
    \A r \in DecisionResults :
        shouldFilterByLanguage(settings, r) =
            IF ~settings.filterByLanguage THEN FALSE
            ELSE IF settings.blockSelectedLanguages THEN Matched(settings, r)
                 ELSE ~Matched(settings, r)

\* allow-mode with "en" alone selected and unknown languages not selected,
\* set up by setter calls: en-US above the threshold is shown, "und" is hidden
C15_Witness ==
    /\ settings.filterByLanguage
    /\ ~settings.blockSelectedLanguages
    /\ ~settings.selectUnknownLanguage
    /\ settings.selectedLanguages = <<LangEn>>
    /\ settings.listedLanguages = <<LangJa, LangEn>>
    /\ settings.percentageThreshold = 20
    /\ ~shouldFilterByLanguage(settings, ResultEnUS)
    /\ shouldFilterByLanguage(settings, ResultUnd)

\* w occurs in t as a contiguous substring, letter case ignored
OccursIgnoringCase(t, w) ==
    \/ w = <<>>
    \/ \E i, j \in 1..Len(t) :
           i <= j /\ toLocaleLowerCase(SubSeq(t, i, j)) = toLocaleLowerCase(w)

\* C16: shouldFilterByWord is false while word filtering is off or no word
\* is blocked; without regular expressions it is true iff a blocked word
\* occurs in the text, letter case ignored; with regular expressions it is
\* true iff a cached pattern matches the text.
C16_WordDecision ==
    \A t \in Texts :
        shouldFilterByWord(settings, t) =
            IF ~settings.filterByWord \/ settings.blockedWords = <<>> THEN FALSE
            ELSE IF ~settings.regularExpressionEnabled
                 THEN \E w \in Elems(settings.blockedWords) : OccursIgnoringCase(t, w)
                 ELSE \E w \in Elems(settings.regExp) : match(t, w)

\* the word "bb" was blocked by setBlockedWords(["  bb ", " "]), and "BB" is
\* hidden while "Aa" is not
C16_Witness ==
    /\ settings.filterByWord
    /\ ~settings.regularExpressionEnabled
    /\ settings.blockedWords = cleanWords(WordsBb)
    /\ shouldFilterByWord(settings, TextBB)
    /\ ~shouldFilterByWord(settings, TextAa)

\* ------------------------------------------------------------------------
\*  Settings: when a change asks for a refresh
\* ------------------------------------------------------------------------

\* the two settings differ in a field that the filter decision reads
DecisionFieldsDiffer(new, old) ==
    \/ Elems(old.selectedLanguages) # Elems(new.selectedLanguages)
    \/ old.filterByLanguage # new.filterByLanguage
    \/ old.blockSelectedLanguages # new.blockSelectedLanguages
    \/ old.selectUnknownLanguage # new.selectUnknownLanguage
    \/ old.percentageThreshold # new.percentageThreshold
    \/ old.filterByWord # new.filterByWord
    \/ old.regularExpressionEnabled # new.regularExpressionEnabled
    \/ Elems(old.blockedWords) # Elems(new.blockedWords)
    \/ old.filterReplies # new.filterReplies

\* C17: new.shouldRefreshFilter(old) is true exactly when the two differ in
\* the selection (as sets), a filter flag, the threshold, the blocked words
\* (as sets) or filterReplies.
C17_RefreshOnDecisionFields ==
    refreshNeeded # Null =>
        refreshNeeded.value = DecisionFieldsDiffer(settings, oldSettings)

\* the answer was false for two settings whose blocked words differ in
\* order and repetition only
C17_Witness ==
    /\ refreshNeeded # Null
    /\ ~refreshNeeded.value
    /\ Len(oldSettings.blockedWords) # Len(settings.blockedWords)
    /\ Head(oldSettings.blockedWords) # Head(settings.blockedWords)

\* ------------------------------------------------------------------------
\*  CommentInfo: the hide decision
\* ------------------------------------------------------------------------

\* the decision that the stored text and classification call for
HideDecision ==
    /\ enabled
    /\ detectedLanguage # Null
    /\ IF isReply /\ ~settings.filterReplies THEN FALSE
       ELSE \/ shouldFilterByLanguage(settings, detectedLanguage)
            \/ shouldFilterByWord(settings, text)

\* call p was decided hidden: it hid the element, waits to hide it, or found
\* it hidden and left it so
DecidedHidden(p) == pipes'[p].pc = "delay" \/ pipes'[p].outcome = "true"

\* C18: every applyFilter that passes verifyAge decides "hide" exactly when
\* filtering is enabled, a classification is stored and, for a reply only
\* while filterReplies is on, the language filter or the word filter says so.
C18_HideDecision ==
    [][/\ \A p \in Pipes :
              ApplyFilter(p) /\ pipes'[p].threwAt = "" =>
                  (DecidedHidden(p) <=> HideDecision)
       /\ RefreshFilter /\ ~isDestroyed(age) =>
              (DecidedHidden(Len(pipes')) <=> HideDecision)]_vars

\* a reply whose stored language is not allowed was decided visible by a
\* current refreshAll, because filterReplies is off
C18_Witness ==
    /\ isReply
    /\ enabled
    /\ ~settings.filterReplies
    /\ detectedLanguage # Null
    /\ shouldFilterByLanguage(settings, detectedLanguage)
    /\ display = ""
    /\ \E p \in Pipes :
           /\ pipes[p].kind = "all"
           /\ pipes[p].ticket = age
           /\ pipes[p].pc = "done"
           /\ pipes[p].outcome = "false"
           /\ pipes[p].threwAt = ""

\* ------------------------------------------------------------------------
\*  CommentInfo: refreshFilter
\* ------------------------------------------------------------------------

\* C19: refreshFilter, with the timer it may start, changes neither the age,
\* the stored text, the stored classification, the cache nor the messages to
\* the background script; it shows the element when the stored text and
\* classification do not call for hiding under the current settings, and
\* hides it, at once or after the settle delay, when they do.
C19_RefreshFilterFrame ==
    [][/\ (RefreshFilter \/ \E p \in Pipes : pipes[p].kind = "filter" /\ DelayElapsed(p))
           => UNCHANGED <<age, text, detectedLanguage, cache, entries, inflight>>
       /\ RefreshFilter /\ ~isDestroyed(age) =>
              /\ ~HideDecision => display' = ""
              /\ HideDecision /\ (waited \/ display = "none") => display' = "none"
              /\ HideDecision /\ ~waited /\ display = "" =>
                     pipes'[Len(pipes')].pc = "delay"]_vars

\* a comment classified as Japanese was shown by refreshAll while "ja" was
\* allowed; the settings changed to allow "en" only and refreshFilter hid
\* it, with one message sent to the background script in all and the element
\* showing another text by now
C19_Witness ==
    /\ Len(pipes) = 2
    /\ pipes[1].kind = "all" /\ pipes[1].outcome = "false" /\ pipes[1].threwAt = ""
    /\ pipes[2].kind = "filter" /\ pipes[2].outcome = "true"
    /\ settings = SettingsAllowEn
    /\ detectedLanguage = ResultJa
    /\ display = "none"
    /\ domText # text
    /\ age = 1

\* ------------------------------------------------------------------------
\*  CommentInfo: the settle delay
\* ------------------------------------------------------------------------

\* C20: while the stored text stays the same, applyFilter starts the settle
\* delay at most once, whatever refreshAll and refreshFilter calls are made
\* and however their steps interleave.
C20_OneSettleDelay == settleDelays <= 1

\* ------------------------------------------------------------------------
\*  C28  fetchText resets the classification only when the text changed
\* ------------------------------------------------------------------------

\* C28: when step 1 of a refreshAll (fetchText, its ticket current) reads a
\* text that differs from the stored text, waited becomes false,
\* detectedLanguage becomes null and text becomes the text read; when the
\* text read equals the stored text the three fields are left unchanged.
C28_FetchTextFrame ==
    [][\A p \in Pipes :
          FetchText(p) /\ verifyAge(pipes[p].ticket, age)
          => IF domText # text
             THEN waited' = FALSE /\ detectedLanguage' = Null /\ text' = domText
             ELSE UNCHANGED <<text, detectedLanguage, waited>>]_vars

\* a second refreshAll has read a changed text after the first one had
\* classified and hidden the comment: the element is still hidden, and the
\* classification and the waited flag of the old text are gone
C28_Witness ==
    \E p \in Pipes :
        /\ pipes[p].kind = "all" /\ pipes[p].pc = "detect"
        /\ pipes[p].ticket = age /\ age = 2
        /\ display = "none" /\ ~waited /\ detectedLanguage = Null
        /\ text = domText

\* ------------------------------------------------------------------------
\*  C29, C30  detectLanguage: hit, miss and the response callback
\* ------------------------------------------------------------------------

\* a hit resolves with the cached result and changes neither the map, the
\* queue nor the pending messages
HitLeavesCache ==
    [][\A t \in Texts :
          DetectLanguageHit(t)
          => /\ lastCall'.result = MapGet(cache, hashCode(t))
             /\ UNCHANGED <<cache, entries, inflight>>]_vars

\* a miss sends the text once and leaves the map and the queue alone
MissCallsOnce ==
    [][\A t \in Texts :
          DetectLanguageMiss(t)
          => /\ inflight' = Append(inflight, inflight'[Len(inflight')])
             /\ inflight'[Len(inflight')].text = t
             /\ UNCHANGED <<cache, entries>>]_vars

\* the answer is stored under the fingerprint, and when the queue was full
\* the oldest entry of the map is gone
ResponseInsertsAndEvicts ==
    [][\A i \in 1..Len(inflight) : \A r \in Results :
          OracleResponse(i, r)
          => /\ MapHas(cache', inflight[i].hash)
             /\ MapGet(cache', inflight[i].hash) = r
             /\ (maxCacheSize >= 1 /\ size(entries) = maxCacheSize
                    /\ cache[1].key # inflight[i].hash)
                => ~MapHas(cache', cache[1].key)]_vars

\* C29: detectLanguage on a cached fingerprint resolves with the cached
\* result without a message to the background script and without a change
\* of the map or the queue; on a miss it sends one message and, when the
\* answer arrives, stores the result under the fingerprint, the oldest
\* entry being evicted first when the queue is full.
C29_HitAndMiss ==
    HitLeavesCache /\ MissCallsOnce /\ ResponseInsertsAndEvicts

\* C30: with maxCacheSize >= 1, entries.push is never called on the full
\* queue: whatever the order of detectLanguage calls, answers (several
\* misses may be pending) and clearCache calls, push does not throw
\* 'capacity exceeded'.
C30_PushNeverThrows == maxCacheSize >= 1 => ~pushThrew

\* an answer is pending while the queue is full, after evictions that came
\* later than a clearCache (the map outgrew the queue, which moved its index)
C30_Witness ==
    /\ maxCacheSize >= 1
    /\ size(entries) = maxCacheSize
    /\ entries.index # 0
    /\ Len(cache) > maxCacheSize
    /\ inflight # <<>>
    /\ ~pushThrew

\* ------------------------------------------------------------------------
\*  C22  a refreshAll that fails before applyFilter
\* ------------------------------------------------------------------------

\* C22: the steps of a refreshAll before applyFilter (fetchText, detectLanguage,
\* the answer of the background script, saveLanguage) leave the display of
\* the element as it is, and the step that fails with another error than
\* OutdatedRequestError settles the call as rejected without starting a
\* call, sending a message or taking a ticket.
C22_FailureKeepsVisibility ==
    [][\A p \in Pipes :
          (/\ pipes[p].kind = "all"
           /\ pipes[p].pc \in {"fetch", "detect", "oracle", "save"}
           /\ pipes'[p] # pipes[p])
          => /\ display' = display
             /\ pipes'[p].outcome = "error"
                => /\ pipes'[p].pc = "done"
                   /\ Len(pipes') = Len(pipes)
                   /\ \A q \in Pipes \ {p} : pipes'[q] = pipes[q]
                   /\ inflight' = inflight
                   /\ age' = age]_vars

\* the second refreshAll of a hidden comment read a changed text and failed in
\* detectLanguage: the element is still hidden
C22_Witness ==
    \E p \in Pipes :
        /\ pipes[p].kind = "all" /\ pipes[p].outcome = "error"
        /\ pipes[p].threwAt = "detect" /\ pipes[p].ticket = age
        /\ display = "none" /\ detectedLanguage = Null /\ ~waited

\* ------------------------------------------------------------------------
\*  Claims about the ThreadManager (SpecThread)
\* ------------------------------------------------------------------------

\* the CommentInfo objects stored in the reply map
InMap(t) == {t.replies[k].value : k \in 1..Len(t.replies)}

\* C26: when destroy() of the ThreadManager returns, the main CommentInfo
\* and every reply CommentInfo in the map are destroyed (age = -1).
C26_DestroyDestroysAll ==
    [][ThreadDestroy =>
          /\ thread'.comments[1].age = -1
          /\ thread'.replies = thread.replies
          /\ \A c \in InMap(thread') : thread'.comments[c].age = -1]_vars

\* a destroyed thread with two replies in its map
C26_Witness ==
    /\ ~thread.live
    /\ Len(thread.replies) = 2
    /\ \A c \in InMap(thread) \cup {1} : thread.comments[c].age = -1

\* the comment elements among the nodes of a mutation record
CommentNodes(nodes) == {nodes[k] : k \in 1..Len(nodes)} \cap Anchors

\* the refreshAll calls on comment c started between t and u
StartedOn(t, u, c) ==
    {i \in Len(t.items) + 1..Len(u.items) : u.items[i].comment = c}

\* what one mutation record m makes of the thread t: u
RecordHandled(t, u, m) ==
    LET R == CommentNodes(m.removedNodes)
        A == CommentNodes(m.addedNodes)
        Fresh == {e \in A : ~MapHas(t.replies, e) \/ e \in R}
    IN  IF m.type # "childList"
        THEN u.comments = t.comments /\ u.replies = t.replies
             /\ Len(u.items) = Len(t.items)
        ELSE /\ \A e \in R :
                   MapHas(t.replies, e)
                   => /\ u.comments[MapGet(t.replies, e)].age = -1
                      /\ e \notin A => ~MapHas(u.replies, e)
             /\ \A e \in Fresh :
                   /\ MapHas(u.replies, e)
                   /\ MapGet(u.replies, e) > Len(t.comments)
                   /\ u.comments[MapGet(u.replies, e)] = [CommentInfo(e) EXCEPT !.age = 1]
                   /\ Cardinality(StartedOn(t, u, MapGet(u.replies, e))) = 1
                   /\ \A i \in StartedOn(t, u, MapGet(u.replies, e)) :
                         u.items[i].kind = "all" /\ u.items[i].pc = "run"
             /\ \A e \in Anchors \ (R \cup Fresh) :
                   /\ MapHas(u.replies, e) = MapHas(t.replies, e)
                   /\ MapHas(t.replies, e)
                      => /\ MapGet(u.replies, e) = MapGet(t.replies, e)
                         /\ u.comments[MapGet(t.replies, e)]
                                = t.comments[MapGet(t.replies, e)]
                         /\ StartedOn(t, u, MapGet(t.replies, e)) = {}
             /\ Len(u.comments) = Len(t.comments) + Cardinality(Fresh)
             /\ Len(u.items) = Len(t.items) + Cardinality(Fresh)

\* C24: handleReplyUpdate takes the mutation records in order; for each, the
\* CommentInfo of every removed reply element that has one is destroyed and
\* deleted from the map, then every added reply element without a
\* CommentInfo gets a new one, stored in the map, with refreshAll started on
\* it; an added element that has a CommentInfo keeps it, and no call is
\* started on it.
C24_ReplyUpdate ==
    [][\A ms \in Mutations :
          HandleReplyUpdate(ms)
          => IF Len(ms) = 1
             THEN RecordHandled(thread, thread', ms[1])
             ELSE LET mid == handleReplyUpdate(thread, <<ms[1]>>)
                  IN  /\ RecordHandled(thread, mid, ms[1])
                      /\ RecordHandled(mid, thread', ms[2])]_vars

\* the record (removed 1; added a node that is no comment, and 2) was
\* delivered while 1 had a CommentInfo: that one is destroyed and gone from
\* the map, 2 has a new one with its first refreshAll pending
C24_Witness ==
    /\ thread.observing
    /\ Len(thread.comments) = 3
    /\ thread.comments[2] = [elem |-> 1, age |-> -1]
    /\ thread.comments[3] = [elem |-> 2, age |-> 1]
    /\ thread.replies = <<[key |-> 2, value |-> 3]>>
    /\ \E i \in Items : thread.items[i].comment = 3 /\ thread.items[i].pc = "run"

\* the calls on comments started by the step
Started == Len(thread.items) + 1..Len(thread'.items)

\* the step is the first handler of refreshFilter call c
FilterHandlerRuns(c) ==
    thread.calls[c].kind = "filter" /\ thread.calls[c].pc = "main"
    /\ thread'.calls[c].pc = "replies"

\* refreshFilter() calls mainComment.refreshFilter() and nothing else; its
\* first handler runs once that call resolved and calls refreshFilter on
\* the replies of the map, each once, unless the main comment resolved
\* true; no other step calls refreshFilter on a reply
FilterOrder ==
    [][/\ (Len(thread'.calls) = Len(thread.calls) + 1
           /\ thread'.calls[Len(thread'.calls)].kind = "filter")
          => /\ Cardinality(Started) = 1
             /\ \A i \in Started : /\ thread'.items[i].comment = 1
                                   /\ thread'.items[i].kind = "filter"
                                   /\ thread'.calls[Len(thread'.calls)].item = i
       /\ \A c \in Calls :
             FilterHandlerRuns(c)
             => LET it == thread.items[thread.calls[c].item]
                IN  /\ it.pc = "done"
                    /\ IF it.outcome = "true"
                       THEN Started = {} /\ thread'.comments = thread.comments
                       ELSE /\ Len(thread'.items) = Len(thread.items) + Len(thread.replies)
                            /\ thread'.calls[c].ps = Started
                            /\ \A k \in 1..Len(thread.replies) :
                                  LET n == thread'.items[Len(thread.items) + k]
                                  IN  n.comment = thread.replies[k].value
                                      /\ n.kind = "filter"
       /\ \A i \in Started :
             (thread'.items[i].kind = "filter" /\ thread'.items[i].comment # 1)
             => \E c \in Calls :
                   /\ FilterHandlerRuns(c)
                   /\ thread.items[thread.calls[c].item].outcome = "false"]_vars

\* refreshStatusFunc is called for a refreshFilter call only once every
\* refreshFilter of the handler resolved, and a finished call has called it
StatusAfterwards ==
    /\ [][\A c \in Calls :
             (thread.calls[c].kind = "filter" /\ ~thread.calls[c].status
              /\ thread'.calls[c].status)
             => /\ thread.calls[c].pc = "replies"
                /\ \A i \in thread.calls[c].ps : thread.items[i].pc = "done"]_vars
    /\ [](\A c \in Calls :
             (thread.calls[c].kind = "filter" /\ thread.calls[c].pc = "done")
             => thread.calls[c].status)

\* a refreshFilter call waits for refreshFilter calls only: each of them is
\* resolved or waits for its timer, and none rejects
StatusNotPrevented ==
    [](\A c \in Calls :
          thread.calls[c].kind = "filter"
          => /\ thread.calls[c].pc = "main"
                => thread.items[thread.calls[c].item].pc \in {"delay", "done"}
             /\ \A i \in thread.calls[c].ps :
                   thread.calls[c].pc = "replies"
                   => /\ thread.items[i].pc \in {"delay", "done"}
                      /\ thread.items[i].outcome # "error")

\* C25: refreshFilter of the ThreadManager runs refreshFilter of the main
\* comment first; when that resolved, refreshFilter runs on every reply of
\* the map if the main comment resolved false and on none if it resolved
\* true; refreshStatusFunc is called afterwards in both cases.
C25_RefreshFilterOrder == FilterOrder /\ StatusAfterwards /\ StatusNotPrevented

\* a refreshFilter call that ran refreshFilter on two replies and then
\* called refreshStatusFunc
C25_Witness ==
    \E c \in Calls :
        /\ thread.calls[c].kind = "filter" /\ thread.calls[c].status
        /\ Cardinality(thread.calls[c].ps) = 2

\* the refreshAll of a reply that a refreshMain call waits for rejects: the
\* calls on the other comments are left as they are
SiblingsGoOn ==
    [][\A i \in Items :
          (thread.items[i].pc = "run" /\ thread'.items[i].outcome = "error")
          => /\ \A j \in Items \ {i} : thread'.items[j] = thread.items[j]
             /\ thread'.comments = thread.comments]_vars

\* the last handler of a refreshMain call whose main comment resolved calls
\* refreshStatusFunc
StatusAfterReplies ==
    [][\A c \in Calls :
          (thread.calls[c].kind = "main" /\ thread.calls[c].pc = "replies"
           /\ thread'.calls[c].pc = "done")
          => thread'.calls[c].status]_vars

\* C21: when the refreshAll of one reply of a refreshMain fails with another
\* error than OutdatedRequestError, the calls on the other replies go on to
\* their end, and refreshStatusFunc is still called for that refreshMain.
C21_ReplyFailureIsolated == SiblingsGoOn /\ StatusAfterReplies

\* the step is the first handler of refreshMain call c
MainHandlerRuns(c) ==
    thread.calls[c].kind = "main" /\ thread.calls[c].pc = "main"
    /\ thread'.calls[c].pc = "replies"

\* the first handler of refreshMain destroys the replies of the map and
\* takes them out of it; it makes new ones, one for each reply element of
\* the page, with refreshAll started, if and only if the main comment
\* resolved false and the reply container is there
RepliesReset ==
    [][\A c \in Calls :
          MainHandlerRuns(c)
          => LET filtered == thread.items[thread.calls[c].item].outcome = "true"
                 n == Len(thread.comments)
             IN  /\ \A k \in InMap(thread) : /\ thread'.comments[k].age = -1
                                             /\ k \notin InMap(thread')
                 /\ IF filtered \/ ~thread.container
                    THEN thread'.replies = <<>> /\ Len(thread'.comments) = n
                    ELSE /\ MapKeys(thread'.replies) = thread.anchors
                         /\ Len(thread'.comments) = n + Cardinality(thread.anchors)
                         /\ \A e \in thread.anchors :
                               LET k == MapGet(thread'.replies, e)
                               IN  /\ k > n
                                   /\ thread'.comments[k] = [CommentInfo(e) EXCEPT !.age = 1]
                                   /\ \E i \in thread'.calls[c].ps :
                                         thread'.items[i].comment = k]_vars

\* when the handler of the last of the refreshMain calls made so far has
\* run on a thread that was not destroyed, and the main comment is hidden,
\* the map holds no reply
HiddenMainHasNoReplies ==
    [][\A c \in Calls :
          (/\ MainHandlerRuns(c)
           /\ thread.live
           /\ \A d \in Calls : /\ thread.calls[d].kind = "main"
                               /\ d # c => thread.calls[d].pc # "main"
           /\ thread'.style[0] = "none")
          => thread'.replies = <<>>]_vars

\* C23: when mainComment.refreshAll() of a refreshMain settles, the replies
\* known so far are destroyed and removed from the map, and new ones are made
\* (refreshAll run on each) for the reply elements of the page only if the
\* main comment ended up not hidden; however refreshMain calls overlap, a
\* thread whose main comment ended up hidden has no newly made replies.
C23_RepliesFollowMain == RepliesReset /\ HiddenMainHasNoReplies

\* ------------------------------------------------------------------------
\*  App: the shared context and the map of thread managers
\* ------------------------------------------------------------------------
\* The app is the record app: the context (enabled, settings), whether
\* threadContainer is set, and the keys of the threadManagers map in the
\* order of insertion.  What a handler did to the thread managers is kept in
\* three lists of thread elements, refreshFilter, refreshMain and destroyed,
\* that every handler starts empty; last names the handler.

\* new App() where navigator.languages = nav
App(nav) ==
    [enabled |-> TRUE, settings |-> Settings(NoArgs, nav), languages |-> nav,
     threadContainer |-> FALSE, threadManagers |-> <<>>,
     refreshFilter |-> <<>>, refreshMain |-> <<>>, destroyed |-> <<>>, last |-> ""]

\* a handler of the app starts
handler(a, name) ==
    [a EXCEPT !.refreshFilter = <<>>, !.refreshMain = <<>>, !.destroyed = <<>>,
              !.last = name]

\* handleSettingsUpdate()
handleSettingsUpdate(a) ==
    IF ~a.threadContainer THEN a
    ELSE [a EXCEPT !.refreshFilter = @ \o a.threadManagers]

\* an updateSettings that does not ask the settings
updateSettingsAlways(a, new) ==
    IF ~a.enabled THEN [a EXCEPT !.settings = new]
    ELSE handleSettingsUpdate([a EXCEPT !.settings = new])

\* updateSettings(func) where func returns new
updateSettings(a, new) ==
    IF ~a.enabled THEN [a EXCEPT !.settings = new]
    ELSE LET old == a.settings
             b == [a EXCEPT !.settings = new]
         IN  IF shouldRefreshFilter(b.settings, old)
             THEN handleSettingsUpdate(b)
             ELSE b

\* the value of the key 'settings' in the storage: nothing, or the JSON string
\* of settings that were saved.  Settings that exist have passed
\* cacheRegExp, so that loadFromJSON does not throw on their string.
Stored == {Undefined} \cup {Some(toJSON(st)) : st \in DiffPool}

\* Settings.loadFromJSON(s) for a string or undefined
loadStored(v, nav) == IF v.def THEN loadFromJSON(v.val) ELSE Settings(NoArgs, nav)

\* the app after construction; the buffer, the detector, the comment and the
\* thread idle
InitApp ==
    /\ xs = CircularBuffer(1)
    /\ xsFifo = <<>>
    /\ xsLast = NoCall
    /\ xsOverflow = FALSE
    /\ maxCacheSize = 1
    /\ cache = <<>>
    /\ entries = CircularBuffer(maxCacheSize)
    /\ inflight = <<>>
    /\ run = [ok |-> TRUE, keys |-> <<>>]
    /\ lastCall = [kind |-> "none", text |-> <<>>, result |-> Null]
    /\ pushThrew = FALSE
    /\ age = 0
    /\ text = <<>>
    /\ detectedLanguage = Null
    /\ waited = FALSE
    /\ display = ""
    /\ isReply = FALSE
    /\ domText = <<>>
    /\ enabled = TRUE
    /\ settings = SettingsAllowEn
    /\ pipes = <<>>
    /\ settleDelays = 0
    /\ setterThrew = FALSE
    /\ oldSettings = SettingsAllowEn
    /\ refreshNeeded = Null
    /\ ctor = Null
    /\ savedFor = Undefined
    /\ thread = Null
    /\ app \in {App(nav) : nav \in Navigators}

\* the listener of chrome.storage.onChanged
OnChanged(areaName, newValue) ==
    app' = IF areaName # "sync" THEN handler(app, "onChanged")
           ELSE updateSettings(handler(app, "onChanged"),
                               loadStored(newValue, app.languages))

\* toggleEnabled()
AppToggleEnabled ==
    LET a == [handler(app, "toggleEnabled") EXCEPT !.enabled = ~@]
    IN  app' = IF ~a.threadContainer THEN a
               ELSE [a EXCEPT !.refreshFilter = a.threadManagers]

\* the loops of handleThreadListUpdate over the removed and the added nodes
\* of one record
RECURSIVE removeThreads(_, _)
removeThreads(a, nodes) ==
    IF nodes = <<>> THEN a
    ELSE removeThreads(IF SetHas(a.threadManagers, Head(nodes))
                       THEN [a EXCEPT !.destroyed = Append(@, Head(nodes)),
                                      !.threadManagers = SetDelete(@, Head(nodes))]
                       ELSE a,
                       Tail(nodes))

RECURSIVE addThreads(_, _)
addThreads(a, nodes) ==
    IF nodes = <<>> THEN a
    ELSE addThreads([a EXCEPT !.threadManagers = SetAdd(@, Head(nodes)),
                              !.refreshMain = Append(@, Head(nodes))],
                    Tail(nodes))

\* handleThreadListUpdate(mutations, observer) for one record
HandleThreadListUpdate(mutation) ==
    LET a == handler(app, "handleThreadListUpdate")
    IN  app' = IF ~a.threadContainer \/ mutation.type # "childList" THEN a
               ELSE addThreads(removeThreads(a, mutation.removedNodes),
                               mutation.addedNodes)

\* the records of the thread list observer
ThreadMutations ==
    {ChildList(<<>>, <<1>>), ChildList(<<>>, <<2, 1>>), ChildList(<<1>>, <<>>),
     ChildList(<<2>>, <<1>>), ChildList(<<1, 2>>, <<>>),
     [type |-> "attributes", removedNodes |-> <<>>, addedNodes |-> <<>>]}

\* reload(): startInitialization()
StartInitialization ==
    app' = [handler(app, "startInitialization") EXCEPT !.threadContainer = FALSE]

\* reload(): loadSettings() and setEnabledFromDefault()
LoadSettings(stored) ==
    LET st == loadStored(stored, app.languages)
    IN  app' = [handler(app, "loadSettings") EXCEPT !.settings = st,
                                                     !.enabled = st.enabledDefault]

\* reload(): injectFilterButton(commentHeader) and refresh(), where the
\* thread container is found or not and shows the threads
InjectFilterButton(found, threads) ==
    LET a == [handler(app, "injectFilterButton") EXCEPT !.threadContainer = found]
    IN  app' = IF ~found THEN a ELSE addThreads(a, threads)

appFrame == <<bufVars, detVars, itemVars, setVars, thread>>

NextApp ==
    \/ \E areaName \in {"sync", "local"}, v \in Stored :
            OnChanged(areaName, v) /\ UNCHANGED appFrame
    \/ AppToggleEnabled /\ UNCHANGED appFrame
    \/ \E m \in ThreadMutations : HandleThreadListUpdate(m) /\ UNCHANGED appFrame
    \/ StartInitialization /\ UNCHANGED appFrame
    \/ \E v \in Stored : LoadSettings(v) /\ UNCHANGED appFrame
    \/ \E found \in BOOLEAN, threads \in {<<>>, <<1>>, <<1, 2>>} :
            InjectFilterButton(found, threads) /\ UNCHANGED appFrame

SpecApp == InitApp /\ [][NextApp]_vars

AgeStep ==
    [][RefreshAll
       => IF age < 0 THEN age' = age
          ELSE /\ age' = IF age + 1 = 1000000000 THEN 0 ELSE age + 1
               /\ pipes'[Len(pipes')].minted
               /\ pipes'[Len(pipes')].ticket = age']_vars

\* C31: the age of a comment is -1 (destroyed) or lies in [0, 10^9), and no
\* request that was given a new age carries -1
AgeInRange ==
    /\ age = -1 \/ (0 <= age /\ age < 1000000000)
    /\ \A p \in Pipes : pipes[p].minted => 0 <= pipes[p].ticket /\ pipes[p].ticket < 1000000000

C31_AgeWraps == AgeStep /\ []AgeInRange

\* the counter wrapped: a request carries the age 0 that followed 10^9 - 1
C31_Witness ==
    /\ Len(pipes) = 2
    /\ pipes[1].minted /\ pipes[1].ticket = 1000000000 - 1
    /\ pipes[2].minted /\ pipes[2].ticket = 0
    /\ age = 0

\* a word as setBlockedWords leaves it: not empty, no white space at either
\* end, and inside only single spaces
Normalized(w) ==
    /\ w # <<>>
    /\ ~isSpace(w[1]) /\ ~isSpace(w[Len(w)])
    /\ \A i \in 1..Len(w) : isSpace(w[i]) => w[i] = 32 /\ ~isSpace(w[i + 1])

\* C32: the blocked words of every Settings instance, built by the
\* constructor, loaded from a record or changed by a setter, are normalized:
\* none is empty or white space only, none has white space to trim or to
\* collapse
C32_BlockedWordsNormalized ==
    \A i \in 1..Len(settings.blockedWords) : Normalized(settings.blockedWords[i])

\* ------------------------------------------------------------------------
\*  Settings: one call of the constructor and of toJSON
\* ------------------------------------------------------------------------

\* the selected and the listed languages handed to the constructor
SelectedArgs ==
    {Undefined, Some(<<>>), Some(<<LangEn, LangEn>>), Some(<<LangJa, LangEn>>),
     Some(<<LangDe, LangJa, LangDe>>), Some(<<LangEn, LangJa, LangEn>>)}
ListedArgs ==
    {Undefined, Some(<<>>), Some(<<LangJa, LangJa>>), Some(<<LangEn, LangJa>>),
     Some(<<LangJa, LangEn, LangJa>>)}

\* the constructor is about to be called; the buffer, the detector, the
\* comment, the thread and the app idle
InitConstruct ==
    /\ xs = CircularBuffer(1)
    /\ xsFifo = <<>>
    /\ xsLast = NoCall
    /\ xsOverflow = FALSE
    /\ maxCacheSize = 1
    /\ cache = <<>>
    /\ entries = CircularBuffer(maxCacheSize)
    /\ inflight = <<>>
    /\ run = [ok |-> TRUE, keys |-> <<>>]
    /\ lastCall = [kind |-> "none", text |-> <<>>, result |-> Null]
    /\ pushThrew = FALSE
    /\ age = 0
    /\ text = <<>>
    /\ detectedLanguage = Null
    /\ waited = FALSE
    /\ display = ""
    /\ isReply = FALSE
    /\ domText = <<>>
    /\ enabled = TRUE
    /\ settings = Null
    /\ pipes = <<>>
    /\ settleDelays = 0
    /\ setterThrew = FALSE
    /\ oldSettings = Null
    /\ refreshNeeded = Null
    /\ ctor \in {[args |-> [NoArgs EXCEPT !.selectedLanguages = sl,
                                          !.listedLanguages = ll],
                  languages |-> nav, json |-> Null] :
                    sl \in SelectedArgs, ll \in ListedArgs, nav \in Navigators}
    /\ savedFor = Undefined
    /\ thread = Null
    /\ app = Null

constructFrame == <<bufVars, detVars, itemRest, setterThrew, oldSettings, refreshNeeded, savedFor,
                    threadVars>>

\* new Settings(...args)
Construct ==
    /\ settings = Null
    /\ ~constructorThrows(ctor.args)
    /\ settings' = Settings(ctor.args, ctor.languages)
    /\ UNCHANGED <<ctor, constructFrame>>

\* toJSON() of the instance
ToJSON ==
    /\ settings # Null
    /\ ctor.json = Null
    /\ ctor' = [ctor EXCEPT !.json = toJSON(settings)]
    /\ UNCHANGED <<settings, constructFrame>>

NextConstruct == Construct \/ ToJSON

SpecConstruct == InitConstruct /\ [][NextConstruct]_vars

\* the elements of a list, and the place where one occurs first
Members(q) == {q[i] : i \in 1..Len(q)}
FirstAt(q, x) == CHOOSE i \in 1..Len(q) : q[i] = x /\ \A j \in 1..(i - 1) : q[j] # x

\* the list q holds each element of S and of L once: first the elements of
\* S that are not in L, in the order in which S names them first, then the
\* elements of L in the order in which L names them first
ListsSelectedThenListed(q, S, L) ==
    /\ Members(q) = Members(S) \cup Members(L)
    /\ \A i, j \in 1..Len(q) : i < j =>
          /\ q[i] # q[j]
          /\ q[j] \notin Members(L) =>
                /\ q[i] \notin Members(L)
                /\ FirstAt(S, q[i]) < FirstAt(S, q[j])
          /\ q[i] \in Members(L) /\ q[j] \in Members(L) =>
                FirstAt(L, q[i]) < FirstAt(L, q[j])

\* the list q holds the elements of S, each once, in the order of the list ll
InOrderOf(q, S, ll) ==
    /\ Members(q) = Members(S)
    /\ \A i, j \in 1..Len(q) : i < j =>
          /\ q[i] # q[j]
          /\ FirstAt(ll, q[i]) < FirstAt(ll, q[j])

\* C33: the constructor called with selected languages S and listed
\* languages L lists the distinct elements of S that are not in L, in S
\* order, and then the distinct elements of L in the order of their first
\* occurrence; without L it lists the distinct elements of S; and toJSON
\* writes the selected languages ('il') in the order of the list
C33_ListedLanguages ==
    (settings # Null /\ ctor # Null /\ ctor.args.selectedLanguages.def) =>
        LET S == ctor.args.selectedLanguages.val
            L == IF ctor.args.listedLanguages.def THEN ctor.args.listedLanguages.val
                 ELSE <<>>
        IN  /\ ListsSelectedThenListed(settings.listedLanguages, S, L)
            /\ ctor.json # Null =>
                  /\ InOrderOf(ctor.json.il, S, settings.listedLanguages)
                  /\ ctor.json.ll = settings.listedLanguages

\* a language selected that the list does not name, a list that names a
\* language twice, and the record written
C33_Witness ==
    /\ ctor # Null /\ ctor.json # Null
    /\ ctor.args.selectedLanguages = Some(<<LangJa, LangEn>>)
    /\ ctor.args.listedLanguages = Some(<<LangEn, LangJa>>)
    /\ settings.listedLanguages = <<LangEn, LangJa>>
    /\ ctor.json.il = <<LangEn, LangJa>>

\* C34: when new.shouldRefreshFilter(old) is false the two settings decide
\* alike: for every classification, every text and both kinds of comment
\* shouldFilterByLanguage agrees, shouldFilterByWord agrees, the exemption
\* of replies agrees, and so does shouldFilter, with the filter on or off
C34_DiffIsSound ==
    (refreshNeeded # Null /\ ~refreshNeeded.value) =>
        /\ settings.filterReplies = oldSettings.filterReplies
        /\ \A r \in DecisionResults :
              shouldFilterByLanguage(settings, r) = shouldFilterByLanguage(oldSettings, r)
        /\ \A t \in Texts :
              shouldFilterByWord(settings, t) = shouldFilterByWord(oldSettings, t)
        /\ \A r \in DecisionResults \cup {Null}, t \in Texts, reply, on \in BOOLEAN :
              shouldFilter(r, on, settings, reply, t)
                  = shouldFilter(r, on, oldSettings, reply, t)

\* no refresh was asked for two settings that hold the same regular
\* expressions in another order; both hide the text "Aa" and show "C"
C34_Witness ==
    /\ refreshNeeded # Null
    /\ ~refreshNeeded.value
    /\ settings.regularExpressionEnabled
    /\ settings.regExp # oldSettings.regExp
    /\ shouldFilterByWord(settings, TextAa) /\ shouldFilterByWord(oldSettings, TextAa)
    /\ ~shouldFilterByWord(settings, TextC)

\* C35: the eviction queue holds exactly the keys of the cache map, each
\* once, so that entries.size() is the size of the map
C35_QueueMatchesMap ==
    LET q == Drain(entries)
    IN  /\ {q[i] : i \in 1..Len(q)} = MapKeys(cache)
        /\ \A i, j \in 1..Len(q) : i # j => q[i] # q[j]
        /\ size(entries) = Len(cache)

\* the classification stored next to the text was asked for the fingerprint
\* of that text
StoredForText ==
    (age >= 0 /\ detectedLanguage # Null) => savedFor = Some(hashCode(text))

\* a result reaches saveLanguage only as the entry that the cache holds for
\* the fingerprint that detectLanguage asked for: the entry found there, or
\* the answer of the background script that was just stored there
ResultOfFingerprint ==
    [][\A p \in Pipes :
          (pipes[p].pc # "save" /\ pipes'[p].pc = "save")
          => /\ pipes'[p].hash.def
             /\ LET h == pipes'[p].hash.val
                    c == IF pipes[p].pc = "detect" THEN cache ELSE cache'
                IN  /\ pipes[p].pc = "detect" => h = hashCode(text)
                    /\ pipes[p].pc = "oracle" =>
                          /\ pipes[p].hash = pipes'[p].hash
                          /\ \E i \in 1..Len(inflight) :
                                inflight[i].pipe = p /\ inflight[i].hash = h
                    /\ MapHas(c, h)
                    /\ pipes'[p].result = MapGet(c, h)]_vars

\* saveLanguage stores the result it was handed, and nothing else stores a
\* classification
OnlySaved ==
    [][(detectedLanguage' # detectedLanguage /\ detectedLanguage' # Null)
       => \E p \in Pipes : /\ pipes[p].pc = "save"
                           /\ pipes[p].ticket = age
                           /\ detectedLanguage' = pipes[p].result
                           /\ savedFor' = pipes[p].hash]_vars

\* C38: whenever a comment that is not destroyed holds a classification, it
\* is the result that the cache or the background script returned for the
\* fingerprint of the text stored next to it
C38_ClassificationOfText ==
    /\ []StoredForText
    /\ ResultOfFingerprint
    /\ OnlySaved

\* the text changed while a request was pending: the answer for the old
\* text was discarded by saveLanguage, and the classification of the new
\* text is stored
C38_Witness ==
    /\ age >= 0
    /\ detectedLanguage # Null
    /\ Len(pipes) = 2
    /\ pipes[1].stale /\ pipes[1].threwAt = "save"
    /\ text = TextC
    /\ savedFor = Some(hashCode(TextC))

\* after destroy() no CommentInfo is created for the thread and no element
\* of the thread is hidden or shown
DeadThreadIsLeftAlone ==
    [][~thread.live
       => /\ Len(thread'.comments) = Len(thread.comments)
          /\ thread'.style = thread.style]_vars

\* after destroy() every CommentInfo of the thread is destroyed
DeadThreadHasNoActive ==
    ~thread.live => \A c \in 1..Len(thread.comments) : isDestroyed(thread.comments[c].age)

\* C36: after destroy() the thread stays dead, also when a refreshMain was
\* pending: no reply CommentInfo is created, no CommentInfo of the thread is
\* active, no element of the thread changes its visibility
C36_ThreadStaysDead == DeadThreadIsLeftAlone /\ []DeadThreadHasNoActive

\* C37: while the thread is not destroyed, every CommentInfo stored in the
\* reply map is active and stored under the anchor of its element, and
\* every active reply CommentInfo the thread created is stored in the map;
\* so no anchor has two active CommentInfo objects and none is orphaned
C37_MapHoldsTheActiveReplies ==
    thread.live =>
        /\ \A i \in 1..Len(thread.replies) :
              LET c == thread.comments[thread.replies[i].value]
              IN  ~isDestroyed(c.age) /\ c.elem = thread.replies[i].key
        /\ \A c \in 2..Len(thread.comments) :
              ~isDestroyed(thread.comments[c].age) =>
                  \E i \in 1..Len(thread.replies) : thread.replies[i].value = c
        /\ \A c, d \in 2..Len(thread.comments) :
              (/\ c # d
               /\ ~isDestroyed(thread.comments[c].age)
               /\ ~isDestroyed(thread.comments[d].age))
              => thread.comments[c].elem # thread.comments[d].elem

\* a reply was removed and added again while the thread lives: the map
\* holds the new CommentInfo of the anchor, the old one is destroyed
C37_Witness ==
    /\ thread.live
    /\ Len(thread.comments) = 3
    /\ thread.comments[2].elem = thread.comments[3].elem
    /\ isDestroyed(thread.comments[2].age)
    /\ ~isDestroyed(thread.comments[3].age)
    /\ Len(thread.replies) = 1

\* every call on the thread and on its comments has settled, every timer has
\* fired and every handler has run
Quiet ==
    /\ thread.jobs = <<>>
    /\ \A i \in 1..Len(thread.items) : thread.items[i].pc = "done"
    /\ \A c \in 1..Len(thread.calls) : thread.calls[c].pc = "done"

\* C39: with the filter switched off and every refresh and settle delay
\* completed, neither the main comment of a thread that is not destroyed nor
\* a reply of its map is hidden
C39_OffShowsAll ==
    (thread.live /\ ~thread.enabled /\ Quiet) =>
        /\ thread.style[0] # "none"
        /\ \A i \in 1..Len(thread.replies) : thread.style[thread.replies[i].key] # "none"

====
